---- MODULE Spec2Model ----
(***************************************************************************)
(* A model of the simulation core of the side-scrolling portfolio game:    *)
(* the GameLoop scheduler, the InputManager key state machine, the         *)
(* CollisionSystem position resolver and the gameUpdate callback that      *)
(* ties them together.                                                     *)
(*                                                                         *)
(* Time is counted in milliseconds, so the scheduler's 0.1 s ceiling is    *)
(* DtCapMs = 100.                                                          *)
(***************************************************************************)
EXTENDS Integers, Sequences, FiniteSets, TLC

VARIABLES
    loop,       \* the GameLoop object
    rafQueue,   \* requestAnimationFrame requests (all for _boundTick) waiting for the next frame
    now,        \* performance.now(), in ms
    frameLeft,  \* callbacks of the running frame that have not run yet
    ticks,      \* what each _tick call of the current (or last) frame did
    hist,       \* history of the start()/stop() calls made so far
    input,      \* the InputManager object
    physDown,   \* keys that are physically down on the keyboard
    press,      \* per key, what happened during its current (or last) physical press
    quiet,      \* a forced clear happened and no key-down or touch-start since
    collision,  \* the CollisionSystem object
    probe,      \* the constrainPlayer call made since the resolver last changed: its body and result
    game,       \* the player, the overlays and the theme
    calls,      \* the calls the latest gameUpdate made on the InputManager, in order
    camera,     \* the Camera object
    run         \* the latest call made on the player or the camera: which one, its arguments, and what is counted across calls

vars == <<loop, rafQueue, now, frameLeft, ticks, hist, input, physDown, press, quiet,
          collision, probe, game, calls, camera, run>>

loopVars == <<loop, rafQueue, now, frameLeft, ticks, hist>>

inputVars == <<input, physDown, press, quiet>>

collisionVars == <<collision, probe>>

gameVars == <<game, calls>>

playVars == <<camera, run>>

Min(a, b) == IF a < b THEN a ELSE b

Max(a, b) == IF a > b THEN a ELSE b

(***************************************************************************)
(* Bounds of the model.                                                    *)
(***************************************************************************)
MaxTime == 150        \* the clock stops advancing here

MaxCallbacks == 3     \* callbacks registered, both lists together

MaxFrameCount == 3     \* frames counted by the FPS counter before the model stops running frames

MaxZones == 2         \* solid zones added between two clearZones()

WorldWidth == 16      \* the world of the resolver's model, in px

MaxPending == 2       \* start() is not called from outside with this many requests waiting

Deltas == {50, 150}   \* ms that may pass between two events

(***************************************************************************)
(* GameLoop                                                                *)
(***************************************************************************)
DtCapMs == 100

\* What a registered callback does when invoked: nothing to the scheduler,
\* or a call of gameLoop.stop(), or a call of gameLoop.start().
Behaviours == {"plain", "stop"}

GameLoop_new ==
    [isRunning |-> FALSE, lastTimestamp |-> 0,
     updateCallbacks |-> <<>>, renderCallbacks |-> <<>>,
     fps |-> 0, frameCount |-> 0, fpsTimer |-> 0]

onUpdate(L, fn) == [L EXCEPT !.updateCallbacks = Append(@, fn)]

onRender(L, fn) == [L EXCEPT !.renderCallbacks = Append(@, fn)]

\* S = [loop, raf, calls]: the scheduler, the animation-frame requests it has
\* made, and the callback invocations of the tick in progress.
start_Unguarded(S, t) ==
    [S EXCEPT !.loop.isRunning = TRUE,
              !.loop.lastTimestamp = t,
              !.raf = @ + 1]

start(S, t) ==
    IF S.loop.isRunning THEN S
    ELSE [S EXCEPT !.loop.isRunning = TRUE,
                   !.loop.lastTimestamp = t,
                   !.raf = @ + 1]

stop(S) == [S EXCEPT !.loop.isRunning = FALSE]

\* fn(dt) for one registered callback.
Invoke(fn, S, t) ==
    CASE fn = "plain" -> S
      [] fn = "stop"  -> stop(S)
      [] fn = "start" -> start(S, t)

RECURSIVE RunCallbacks_AbortOnStop(_, _, _, _, _, _)
RunCallbacks_AbortOnStop(kind, cbs, i, dt, S, t) ==
    IF i > Len(cbs) \/ ~S.loop.isRunning THEN S
    ELSE LET called == [S EXCEPT !.calls = Append(@, [kind |-> kind, idx |-> i, dt |-> dt])]
         IN  RunCallbacks_AbortOnStop(kind, cbs, i + 1, dt, Invoke(cbs[i], called, t), t)

RECURSIVE RunCallbacks(_, _, _, _, _, _)
RunCallbacks(kind, cbs, i, dt, S, t) ==
    IF i > Len(cbs) THEN S
    ELSE LET called == [S EXCEPT !.calls = Append(@, [kind |-> kind, idx |-> i, dt |-> dt])]
         IN  RunCallbacks(kind, cbs, i + 1, dt, Invoke(cbs[i], called, t), t)

FpsCounter(L, dt) ==
    LET L1 == [L EXCEPT !.frameCount = @ + 1, !.fpsTimer = @ + dt]
    IN  IF L1.fpsTimer >= 1000
        THEN [L1 EXCEPT !.fps = L1.frameCount, !.frameCount = 0, !.fpsTimer = @ - 1000]
        ELSE L1

tick_RenderFirst(S, timestamp, t) ==
    IF ~S.loop.isRunning THEN S
    ELSE LET rawDelta == timestamp - S.loop.lastTimestamp
             dt == Min(rawDelta, DtCapMs)
             S1 == [S EXCEPT !.loop = FpsCounter([@ EXCEPT !.lastTimestamp = timestamp], dt)]
             S2 == RunCallbacks("render", S1.loop.renderCallbacks, 1, dt, S1, t)
             S3 == RunCallbacks("update", S2.loop.updateCallbacks, 1, dt, S2, t)
         IN  [S3 EXCEPT !.raf = @ + 1]

tick_NoCeiling(S, timestamp, t) ==
    IF ~S.loop.isRunning THEN S
    ELSE LET rawDelta == timestamp - S.loop.lastTimestamp
             dt == rawDelta
             S1 == [S EXCEPT !.loop = FpsCounter([@ EXCEPT !.lastTimestamp = timestamp], dt)]
             S2 == RunCallbacks("update", S1.loop.updateCallbacks, 1, dt, S1, t)
             S3 == RunCallbacks("render", S2.loop.renderCallbacks, 1, dt, S2, t)
         IN  [S3 EXCEPT !.raf = @ + 1]

\* _tick(timestamp); t is performance.now() while it runs.
tick(S, timestamp, t) ==
    IF ~S.loop.isRunning THEN S
    ELSE LET rawDelta == timestamp - S.loop.lastTimestamp
             dt == Min(rawDelta, DtCapMs)
             S1 == [S EXCEPT !.loop = FpsCounter([@ EXCEPT !.lastTimestamp = timestamp], dt)]
             S2 == RunCallbacks("update", S1.loop.updateCallbacks, 1, dt, S1, t)
             S3 == RunCallbacks("render", S2.loop.renderCallbacks, 1, dt, S2, t)
         IN  [S3 EXCEPT !.raf = @ + 1]

(***************************************************************************)
(* History of the control calls, kept beside the scheduler.                *)
(***************************************************************************)
NoteStart(h) == [h EXCEPT !.lastCtl = "start", !.starts = Min(@ + 1, 2)]

NoteStop(h) == [h EXCEPT !.lastCtl = "stop", !.everStopped = TRUE]

RECURSIVE NoteCallbacks(_, _, _)
NoteCallbacks(cbs, i, h) ==
    IF i > Len(cbs) THEN h
    ELSE NoteCallbacks(cbs, i + 1,
            CASE cbs[i] = "stop"  -> NoteStop(h)
              [] cbs[i] = "start" -> NoteStart(h)
              [] OTHER            -> h)

(***************************************************************************)
(* InputManager                                                            *)
(*                                                                         *)
(* keys and justPressed are the sets of keys whose entry is truthy: every  *)
(* reader tests the entry for truth only, so an absent entry and false are *)
(* the same.                                                               *)
(***************************************************************************)
\* e.key.toLowerCase()
toLowerCase(k) ==
    CASE k = "A"          -> "a"
      [] k = "D"          -> "d"
      [] k = "W"          -> "w"
      [] k = "E"          -> "e"
      [] k = "T"          -> "t"
      [] k = "Shift"      -> "shift"
      [] k = "Escape"     -> "escape"
      [] k = "ArrowLeft"  -> "arrowleft"
      [] k = "ArrowRight" -> "arrowright"
      [] k = "ArrowUp"    -> "arrowup"
      [] OTHER            -> k

Buttons == {"left", "right", "interact", "sprint", "jump"}

InputManager_new(mobile) ==
    [keys |-> {}, justPressed |-> {}, isMobile |-> mobile,
     mobileLeft |-> FALSE, mobileRight |-> FALSE, mobileInteract |-> FALSE,
     mobileSprint |-> FALSE, mobileJump |-> FALSE]

clearAllKeys_KeysOnly(I) == [I EXCEPT !.keys = {}, !.justPressed = {}]

clearAllKeys(I) ==
    [I EXCEPT !.keys = {}, !.justPressed = {},
              !.mobileLeft = FALSE, !.mobileRight = FALSE, !.mobileInteract = FALSE,
              !.mobileSprint = FALSE, !.mobileJump = FALSE]

onKeyDown_AlwaysEdge(I, eKey) ==
    LET key == toLowerCase(eKey)
    IN  [I EXCEPT !.justPressed = @ \cup {key}, !.keys = @ \cup {key}]

onKeyDown(I, eKey) ==
    LET key == toLowerCase(eKey)
        I1  == IF key \notin I.keys THEN [I EXCEPT !.justPressed = @ \cup {key}] ELSE I
    IN  [I1 EXCEPT !.keys = @ \cup {key}]

onKeyUp_DropsEdge(I, eKey) ==
    LET key == toLowerCase(eKey)
    IN  [I EXCEPT !.keys = @ \ {key}, !.justPressed = @ \ {key}]

onKeyUp(I, eKey) ==
    LET key == toLowerCase(eKey)
    IN  [I EXCEPT !.keys = @ \ {key}]

\* The touchstart / touchend / touchcancel listeners of the five buttons.
SetTouch(I, button, v) ==
    CASE button = "left"     -> [I EXCEPT !.mobileLeft = v]
      [] button = "right"    -> [I EXCEPT !.mobileRight = v]
      [] button = "interact" -> [I EXCEPT !.mobileInteract = v]
      [] button = "sprint"   -> [I EXCEPT !.mobileSprint = v]
      [] button = "jump"     -> [I EXCEPT !.mobileJump = v]

endFrame_ClearsHeld(I) ==
    [I EXCEPT !.keys = {}, !.justPressed = {}, !.mobileInteract = FALSE, !.mobileJump = FALSE]

endFrame_KeepsEdges(I) == [I EXCEPT !.mobileInteract = FALSE, !.mobileJump = FALSE]

endFrame(I) ==
    [I EXCEPT !.justPressed = {}, !.mobileInteract = FALSE, !.mobileJump = FALSE]

isMovingLeft(I) == "arrowleft" \in I.keys \/ "a" \in I.keys \/ I.mobileLeft

isMovingRight(I) == "arrowright" \in I.keys \/ "d" \in I.keys \/ I.mobileRight

isSprinting(I) == "shift" \in I.keys \/ I.mobileSprint

isJumpPressed(I) ==
    " " \in I.justPressed \/ "w" \in I.justPressed \/ "arrowup" \in I.justPressed \/ I.mobileJump

isInteractPressed(I) == "e" \in I.justPressed \/ I.mobileInteract

isThemeTogglePressed(I) == "t" \in I.justPressed

isClosePressed(I) == "escape" \in I.justPressed

(***************************************************************************)
(* The InputManager in its environment: a keyboard whose keys go down,     *)
(* repeat and go up, a touch screen, the window losing focus, and the game *)
(* calling endFrame() at the end of a tick.  A key event reaches the       *)
(* window only while it has the focus, so a key can go down or up without  *)
(* its event being delivered.                                              *)
(***************************************************************************)
\* The e.key values the keyboard of the model produces.
KeyNames == {"a", "A", " "}

\* A press that begins: no tick has seen its edge, no forced clear has hit
\* it; an edge still waiting for its tick (stale) belongs to an earlier press.
NewPress(stale) == [ticks |-> 0, cleared |-> FALSE, stale |-> stale, repeated |-> FALSE]

InputInit(mobile) ==
    /\ input = InputManager_new(mobile)
    /\ physDown = {}
    /\ press = [k \in {toLowerCase(e) : e \in KeyNames} |-> NewPress(FALSE)]
    /\ quiet = FALSE

\* 'keydown': the first of a press (e.repeat false) or an auto-repeat.
KeyDown ==
    \E eKey \in KeyNames, repeat \in BOOLEAN :
        LET key == toLowerCase(eKey)
        IN  /\ repeat <=> key \in physDown
            /\ input' = onKeyDown(input, eKey)
            /\ physDown' = physDown \cup {key}
            /\ press' = IF repeat THEN [press EXCEPT ![key].stale = FALSE, ![key].repeated = TRUE]
                             ELSE [press EXCEPT ![key] = NewPress(FALSE)]
            /\ quiet' = FALSE
            /\ UNCHANGED <<loopVars, collisionVars, gameVars, playVars>>

\* 'keyup'
KeyUp ==
    \E eKey \in KeyNames :
        LET key == toLowerCase(eKey)
        IN  /\ key \in physDown
            /\ input' = onKeyUp(input, eKey)
            /\ physDown' = physDown \ {key}
            /\ UNCHANGED <<press, quiet>>
            /\ UNCHANGED <<loopVars, collisionVars, gameVars, playVars>>

\* A key goes down while the window does not have the focus.
UnseenKeyDown ==
    \E key \in DOMAIN press :
        /\ key \notin physDown
        /\ physDown' = physDown \cup {key}
        /\ press' = [press EXCEPT ![key] = NewPress(key \in input.justPressed)]
        /\ UNCHANGED <<input, quiet>>
        /\ UNCHANGED <<loopVars, collisionVars, gameVars, playVars>>

\* A key goes up while the window does not have the focus: its key-up is lost.
UnseenKeyUp ==
    \E key \in physDown :
        /\ physDown' = physDown \ {key}
        /\ UNCHANGED <<input, press, quiet>>
        /\ UNCHANGED <<loopVars, collisionVars, gameVars, playVars>>

\* Every press in progress has been hit by a forced clear.
MarkCleared ==
    [k \in DOMAIN press |->
        IF k \in physDown THEN [press[k] EXCEPT !.cleared = TRUE] ELSE press[k]]

\* 'blur'
Blur ==
    /\ input' = clearAllKeys(input)
    /\ press' = MarkCleared
    /\ quiet' = TRUE
    /\ UNCHANGED physDown
    /\ UNCHANGED <<loopVars, collisionVars, gameVars, playVars>>

\* 'contextmenu'
ContextMenu ==
    /\ input' = clearAllKeys(input)
    /\ press' = MarkCleared
    /\ quiet' = TRUE
    /\ UNCHANGED physDown
    /\ UNCHANGED <<loopVars, collisionVars, gameVars, playVars>>

\* 'visibilitychange'
VisibilityChange ==
    /\ \E hidden \in BOOLEAN :
        /\ input' = IF hidden THEN clearAllKeys(input) ELSE input
        /\ press' = IF hidden THEN MarkCleared ELSE press
        /\ quiet' = IF hidden THEN TRUE ELSE quiet
    /\ UNCHANGED physDown
    /\ UNCHANGED <<loopVars, collisionVars, gameVars, playVars>>

TouchStart ==
    /\ input.isMobile
    /\ \E b \in Buttons : input' = SetTouch(input, b, TRUE)
    /\ quiet' = FALSE
    /\ UNCHANGED <<physDown, press>>
    /\ UNCHANGED <<loopVars, collisionVars, gameVars, playVars>>

TouchEnd ==
    /\ input.isMobile
    /\ \E b \in Buttons : input' = SetTouch(input, b, FALSE)
    /\ UNCHANGED <<physDown, press, quiet>>
    /\ UNCHANGED <<loopVars, collisionVars, gameVars, playVars>>

TouchCancel ==
    /\ input.isMobile
    /\ \E b \in {"left", "right"} : input' = SetTouch(input, b, FALSE)
    /\ UNCHANGED <<physDown, press, quiet>>
    /\ UNCHANGED <<loopVars, collisionVars, gameVars, playVars>>

\* The end of a tick: the game has made its queries and calls endFrame().
EndFrame ==
    /\ input' = endFrame(input)
    /\ press' = [k \in DOMAIN press |->
                    IF k \notin input.justPressed THEN press[k]
                    ELSE IF press[k].stale THEN [press[k] EXCEPT !.stale = FALSE]
                    ELSE [press[k] EXCEPT !.ticks = Min(@ + 1, 2)]]
    /\ UNCHANGED <<physDown, quiet>>
    /\ UNCHANGED <<loopVars, collisionVars, gameVars, playVars>>

(***************************************************************************)
(* CollisionSystem                                                         *)
(*                                                                         *)
(* Coordinates are whole numbers and body widths are even, so that         *)
(* player.width / 2 is exact.                                              *)
(***************************************************************************)
CollisionSystem_new(worldWidth, groundY) ==
    [worldWidth |-> worldWidth, groundY |-> groundY,
     solidZones |-> <<>>, interactiveZones |-> <<>>]

setGroundY(C, y) == [C EXCEPT !.groundY = y]

addSolidZone(C, x, y, width, height, id) ==
    [C EXCEPT !.solidZones =
        Append(@, [x |-> x, y |-> y, width |-> width, height |-> height, id |-> id])]

addInteractiveZone(C, x, y, width, height, data) ==
    [C EXCEPT !.interactiveZones =
        Append(@, [x |-> x, y |-> y, width |-> width, height |-> height, data |-> data])]

clearZones(C) == [C EXCEPT !.solidZones = <<>>, !.interactiveZones = <<>>]

overlapsX(playerX, halfWidth, zone) ==
    LET playerLeft  == playerX - halfWidth
        playerRight == playerX + halfWidth
    IN  playerRight > zone.x /\ playerLeft < zone.x + zone.width

PushOut_TieLeft(x, halfWidth, zone) ==
    LET playerLeft   == x - halfWidth
        playerRight  == x + halfWidth
        zoneLeft     == zone.x
        zoneRight    == zone.x + zone.width
        overlapLeft  == playerRight - zoneLeft
        overlapRight == zoneRight - playerLeft
    IN  IF overlapLeft <= overlapRight THEN zoneLeft - halfWidth ELSE zoneRight + halfWidth

\* The body of the zone loop: the x a body overlapping the zone is moved to.
PushOut(x, halfWidth, zone) ==
    LET playerLeft   == x - halfWidth
        playerRight  == x + halfWidth
        zoneLeft     == zone.x
        zoneRight    == zone.x + zone.width
        overlapLeft  == playerRight - zoneLeft
        overlapRight == zoneRight - playerLeft
    IN  IF overlapLeft < overlapRight THEN zoneLeft - halfWidth ELSE zoneRight + halfWidth

\* The zone loop from zone i on; pushes lists each displacement it makes.
RECURSIVE ConstrainZones(_, _, _, _, _)
ConstrainZones(zones, i, x, halfWidth, pushes) ==
    IF i > Len(zones) THEN [x |-> x, pushes |-> pushes]
    ELSE IF overlapsX(x, halfWidth, zones[i])
         THEN LET x1 == PushOut(x, halfWidth, zones[i])
              IN  ConstrainZones(zones, i + 1, x1, halfWidth,
                                 Append(pushes, [zone |-> zones[i], from |-> x, to |-> x1]))
         ELSE ConstrainZones(zones, i + 1, x, halfWidth, pushes)

constrainPlayer_KeepY(C, player) ==
    LET halfWidth == player.width \div 2
        x0 == Max(halfWidth, Min(player.x, C.worldWidth - halfWidth))
        r  == ConstrainZones(C.solidZones, 1, x0, halfWidth, <<>>)
    IN  [x |-> r.x, y |-> player.y, pushes |-> r.pushes]

constrainPlayer(C, player) ==
    LET halfWidth == player.width \div 2
        x0 == Max(halfWidth, Min(player.x, C.worldWidth - halfWidth))
        y  == C.groundY
        r  == ConstrainZones(C.solidZones, 1, x0, halfWidth, <<>>)
    IN  [x |-> r.x, y |-> y, pushes |-> r.pushes]

\* Math.abs(player.x - zoneCenterX) with zoneCenterX = zone.x + zone.width / 2,
\* doubled: the centre of a zone of odd width lies on a half.
CenterDist2(playerX, zone) ==
    LET d == 2 * playerX - (2 * zone.x + zone.width)
    IN  IF d < 0 THEN -d ELSE d

Closer_OrEqual(dist2, range, closest, closestDist2) ==
    dist2 < 2 * range /\ (closest = 0 \/ dist2 <= closestDist2)

\* if (dist < range && dist < closestDist), closestDist being Infinity
\* while closest is null
Closer(dist2, range, closest, closestDist2) ==
    dist2 < 2 * range /\ (closest = 0 \/ dist2 < closestDist2)

\* The loop of findNearbyInteractive from zone i on.  closest is the place
\* in interactiveZones of the zone object held so far, 0 for null.
RECURSIVE ScanInteractive(_, _, _, _, _, _)
ScanInteractive(zones, i, playerX, range, closest, closestDist2) ==
    IF i > Len(zones) THEN closest
    ELSE IF Closer(CenterDist2(playerX, zones[i]), range, closest, closestDist2)
         THEN ScanInteractive(zones, i + 1, playerX, range, i, CenterDist2(playerX, zones[i]))
         ELSE ScanInteractive(zones, i + 1, playerX, range, closest, closestDist2)

findNearbyInteractive(C, player, range) ==
    ScanInteractive(C.interactiveZones, 1, player.x, range, 0, 0)

(***************************************************************************)
(* The resolver on its own: zones are added and cleared, the ground level  *)
(* is set, and constrainPlayer is called for bodies of any position.       *)
(***************************************************************************)
GroundYs == {10, 12}

ZoneXs == {2, 4, 6, 8}

ZoneWidths == {2, 4}

BodyWidths == {2, 4}

BodyXs == -2 .. WorldWidth + 2

BodyYs == {12}

NoProbe == [called |-> FALSE]

CollisionInit ==
    /\ collision = CollisionSystem_new(WorldWidth, 10)
    /\ probe = NoProbe

SetGroundY ==
    /\ \E y \in GroundYs : collision' = setGroundY(collision, y)
    /\ probe' = NoProbe
    /\ UNCHANGED <<loopVars, inputVars, gameVars, playVars>>

AddSolidZone ==
    /\ Len(collision.solidZones) < MaxZones
    /\ \E x \in ZoneXs, width \in ZoneWidths :
          collision' = addSolidZone(collision, x, 0, width, 4, "null")
    /\ probe' = NoProbe
    /\ UNCHANGED <<loopVars, inputVars, gameVars, playVars>>

ClearZones ==
    /\ collision' = clearZones(collision)
    /\ probe' = NoProbe
    /\ UNCHANGED <<loopVars, inputVars, gameVars, playVars>>

ConstrainPlayer ==
    /\ \E x \in BodyXs, y \in BodyYs, width \in BodyWidths :
          LET body == [x |-> x, y |-> y, width |-> width, height |-> 4]
          IN  probe' = [called |-> TRUE, body |-> body, out |-> constrainPlayer(collision, body)]
    /\ UNCHANGED collision
    /\ UNCHANGED <<loopVars, inputVars, gameVars, playVars>>

CollisionNext ==
    \/ SetGroundY
    \/ AddSolidZone
    \/ ClearZones
    \/ ConstrainPlayer

(***************************************************************************)
(* The interactive zones on their own: zones are added and cleared, and    *)
(* findNearbyInteractive is called for bodies of any position.             *)
(***************************************************************************)
MaxInteractive == 3      \* interactive zones added between two clearZones()

InteractiveXs == {2, 3, 6}

InteractiveWidths == {2, 3}

Ranges == {1, 3}

AddInteractiveZone ==
    /\ Len(collision.interactiveZones) < MaxInteractive
    /\ \E x \in InteractiveXs, width \in InteractiveWidths :
          collision' = addInteractiveZone(collision, x, 0, width, 4, "npc")
    /\ probe' = NoProbe
    /\ UNCHANGED <<loopVars, inputVars, gameVars, playVars>>

FindNearbyInteractive ==
    /\ \E x \in BodyXs, range \in Ranges :
          LET body == [x |-> x, y |-> 12, width |-> 2, height |-> 4]
          IN  probe' = [called |-> FALSE, asked |-> TRUE, body |-> body, range |-> range,
                        out |-> findNearbyInteractive(collision, body, range)]
    /\ UNCHANGED collision
    /\ UNCHANGED <<loopVars, inputVars, gameVars, playVars>>

ZonesNext ==
    \/ AddInteractiveZone
    \/ ClearZones
    \/ FindNearbyInteractive

(***************************************************************************)
(* The scheduler in its environment: the page calls start(), stop(),       *)
(* onUpdate() and onRender() from its tasks, time passes, and the browser  *)
(* runs animation frames.                                                  *)
(***************************************************************************)
LoopInit ==
    /\ loop = GameLoop_new
    /\ rafQueue = 0
    /\ now = 0
    /\ frameLeft = 0
    /\ ticks = <<>>
    /\ hist = [lastCtl |-> "none", starts |-> 0, everStopped |-> FALSE]

\* Nothing else runs while the browser is running a frame's callbacks.
InFrame == frameLeft > 0

Elapse ==
    /\ ~InFrame
    /\ \E d \in Deltas :
        /\ now + d <= MaxTime
        /\ now' = now + d
    /\ UNCHANGED <<loop, rafQueue, frameLeft, ticks, hist>>
    /\ UNCHANGED <<inputVars, collisionVars, gameVars, playVars>>

OnUpdate ==
    /\ ~InFrame
    /\ Len(loop.updateCallbacks) + Len(loop.renderCallbacks) < MaxCallbacks
    /\ \E fn \in Behaviours : loop' = onUpdate(loop, fn)
    /\ UNCHANGED <<rafQueue, now, frameLeft, ticks, hist>>
    /\ UNCHANGED <<inputVars, collisionVars, gameVars, playVars>>

OnRender ==
    /\ ~InFrame
    /\ Len(loop.updateCallbacks) + Len(loop.renderCallbacks) < MaxCallbacks
    /\ \E fn \in Behaviours : loop' = onRender(loop, fn)
    /\ UNCHANGED <<rafQueue, now, frameLeft, ticks, hist>>
    /\ UNCHANGED <<inputVars, collisionVars, gameVars, playVars>>

Start ==
    /\ ~InFrame
    /\ rafQueue < MaxPending
    /\ LET S == start([loop |-> loop, raf |-> rafQueue, calls |-> <<>>], now)
       IN  /\ loop' = S.loop
           /\ rafQueue' = S.raf
    /\ hist' = NoteStart(hist)
    /\ UNCHANGED <<now, frameLeft, ticks>>
    /\ UNCHANGED <<inputVars, collisionVars, gameVars, playVars>>

Stop ==
    /\ ~InFrame
    /\ LET S == stop([loop |-> loop, raf |-> rafQueue, calls |-> <<>>])
       IN  /\ loop' = S.loop
           /\ rafQueue' = S.raf
    /\ hist' = NoteStop(hist)
    /\ UNCHANGED <<now, frameLeft, ticks>>
    /\ UNCHANGED <<inputVars, collisionVars, gameVars, playVars>>

\* The browser starts an animation frame: it takes the requests made so far;
\* requests made by the callbacks it runs wait for the next frame.
BeginFrame ==
    /\ ~InFrame
    /\ rafQueue > 0
    /\ loop.frameCount + rafQueue <= MaxFrameCount
    /\ frameLeft' = rafQueue
    /\ rafQueue' = 0
    /\ ticks' = <<>>
    /\ UNCHANGED <<loop, now, hist>>
    /\ UNCHANGED <<inputVars, collisionVars, gameVars, playVars>>

\* The frame runs its next callback, _boundTick, with the frame's timestamp.
RunTick ==
    /\ InFrame
    /\ LET S == tick([loop |-> loop, raf |-> rafQueue, calls |-> <<>>], now, now)
       IN  /\ loop' = S.loop
           /\ rafQueue' = S.raf
           /\ ticks' = Append(ticks,
                  [ran |-> loop.isRunning, raw |-> now - loop.lastTimestamp,
                   ctl |-> hist.lastCtl,
                   fns |-> loop.updateCallbacks \o loop.renderCallbacks,
                   nU |-> Len(loop.updateCallbacks),
                   calls |-> S.calls])
    /\ hist' = IF loop.isRunning
               THEN NoteCallbacks(loop.updateCallbacks \o loop.renderCallbacks, 1, hist)
               ELSE hist
    /\ frameLeft' = frameLeft - 1
    /\ UNCHANGED now
    /\ UNCHANGED <<inputVars, collisionVars, gameVars, playVars>>

LoopNext ==
    \/ Elapse
    \/ OnUpdate
    \/ OnRender
    \/ Start
    \/ Stop
    \/ BeginFrame
    \/ RunTick

(***************************************************************************)
(* Player                                                                  *)
(*                                                                         *)
(* The integrator works in exact arithmetic.  Time is counted in units of  *)
(* 1/6000 s (so that 1 ms, 1/30 s and 1/240 s are whole numbers),          *)
(* velocities in 1/20 px/s and positions in 1/120000 px, the product of    *)
(* the two: velocity * dt is then a position and gravity * dt a velocity   *)
(* without any rounding.  jumpSquash, which the code multiplies by 0.85 in *)
(* every update, is held as the value last assigned (in tenths) and the    *)
(* number of times it has been multiplied since.  The fields that feed     *)
(* only drawing (walk, bob and breath cycles, glow, trails, dust) are left *)
(* out.  emitted lists the onJump / onLand / onStep calls of the latest    *)
(* update.                                                                 *)
(***************************************************************************)
MaxDecays == 2        \* multiplications of jumpSquash that are told apart

\* n/d seconds, n milliseconds, n pixels and n pixels per second.
Sec(n, d) == (n * 6000) \div d

Ms(n) == Sec(n, 1000)

Px(n) == n * 120000

PxPerSec(n) == n * 20

Squash(tenths) == [tenths |-> tenths, decays |-> 0]

Player_new_Heavy(x, groundY) ==
    [x |-> x, y |-> groundY, groundY |-> groundY,
     width |-> Px(28), height |-> Px(48),
     speed |-> PxPerSec(180), sprintMultiplier |-> 18,
     velocityX |-> 0, direction |-> 1, isMoving |-> FALSE, isSprinting |-> FALSE,
     velocityY |-> 0, gravity |-> PxPerSec(1200), jumpForce |-> PxPerSec(-380),
     isGrounded |-> TRUE, isJumping |-> FALSE, jumpSquash |-> Squash(0),
     onJump |-> "null", onLand |-> "null", onStep |-> "null",
     stepTimer |-> 0, emitted |-> <<>>]

\* sprintMultiplier is 1.8; the field holds it in tenths.
Player_new(x, groundY) ==
    [x |-> x, y |-> groundY, groundY |-> groundY,
     width |-> Px(28), height |-> Px(48),
     speed |-> PxPerSec(180), sprintMultiplier |-> 18,
     velocityX |-> 0, direction |-> 1, isMoving |-> FALSE, isSprinting |-> FALSE,
     velocityY |-> 0, gravity |-> PxPerSec(900), jumpForce |-> PxPerSec(-380),
     isGrounded |-> TRUE, isJumping |-> FALSE, jumpSquash |-> Squash(0),
     onJump |-> "null", onLand |-> "null", onStep |-> "null",
     stepTimer |-> 0, emitted |-> <<>>]

\* The input predicates update() reads, in the order it reads them.
PlayerQueries == <<"isSprinting", "isMovingLeft", "isMovingRight", "isJumpPressed">>

\* if (this.onJump) this.onJump(); and the like, with the arguments passed.
Emit_Unguarded(P, name, args) ==
    [P EXCEPT !.emitted = Append(@, [name |-> name, args |-> args])]

Emit(P, name, args) ==
    IF P[name] = "null" THEN P
    ELSE [P EXCEPT !.emitted = Append(@, [name |-> name, args |-> args])]

\* player.onJump = ...; player.onLand = ...; player.onStep = ...
AudioCallbacks(P) == [P EXCEPT !.onJump = "audio", !.onLand = "audio", !.onStep = "audio"]

\* The horizontal part of update(): velocityX from the held directions,
\* right after left, then x += velocityX * dt.
SetVelocityX(P, I, v, direction) ==
    [P EXCEPT !.velocityX = v, !.direction = direction,
              !.isMoving = TRUE, !.isSprinting = isSprinting(I)]

Speed(P, I) ==
    IF isSprinting(I) THEN (P.speed * P.sprintMultiplier) \div 10 ELSE P.speed

MoveLeft(P, I) == IF isMovingLeft(I) THEN SetVelocityX(P, I, -Speed(P, I), -1) ELSE P

MoveRight(P, I) == IF isMovingRight(I) THEN SetVelocityX(P, I, Speed(P, I), 1) ELSE P

ApplyVelocityX(P, dt) == [P EXCEPT !.x = @ + P.velocityX * dt]

Horizontal_NoReset(P, I, dt) ==
    ApplyVelocityX(
        MoveRight(MoveLeft([P EXCEPT !.isMoving = FALSE, !.isSprinting = FALSE], I), I),
        dt)

Horizontal(P, I, dt) ==
    ApplyVelocityX(
        MoveRight(
            MoveLeft([P EXCEPT !.velocityX = 0, !.isMoving = FALSE, !.isSprinting = FALSE], I),
            I),
        dt)

Jump_Silent(P, I) ==
    IF isJumpPressed(I) /\ P.isGrounded
    THEN [P EXCEPT !.velocityY = P.jumpForce, !.isGrounded = FALSE,
                   !.isJumping = TRUE, !.jumpSquash = Squash(-3)]
    ELSE P

\* if (input.isJumpPressed() && this.isGrounded) { ... }
Jump_Midair(P, I) ==
    IF isJumpPressed(I)
    THEN Emit([P EXCEPT !.velocityY = P.jumpForce, !.isGrounded = FALSE,
                        !.isJumping = TRUE, !.jumpSquash = Squash(-3)],
              "onJump", <<>>)
    ELSE P

Jump(P, I) ==
    IF isJumpPressed(I) /\ P.isGrounded
    THEN Emit([P EXCEPT !.velocityY = P.jumpForce, !.isGrounded = FALSE,
                        !.isJumping = TRUE, !.jumpSquash = Squash(-3)],
              "onJump", <<>>)
    ELSE P

ApplyGravity_NoLanding(P, dt) ==
    IF P.isGrounded THEN P
    ELSE LET vy == P.velocityY + (P.gravity * dt) \div Sec(1, 1)
             y  == P.y + vy * dt
         IN  IF y >= P.groundY
             THEN [P EXCEPT !.y = P.groundY, !.velocityY = 0]
             ELSE [P EXCEPT !.velocityY = vy, !.y = y]

ApplyGravity_PositionFirst(P, dt) ==
    IF P.isGrounded THEN P
    ELSE LET vy == P.velocityY + (P.gravity * dt) \div Sec(1, 1)
             y  == P.y + P.velocityY * dt
         IN  IF y >= P.groundY
             THEN Emit([P EXCEPT !.y = P.groundY, !.velocityY = 0,
                                 !.isGrounded = TRUE, !.isJumping = FALSE,
                                 !.jumpSquash = Squash(3)],
                       "onLand", <<>>)
             ELSE [P EXCEPT !.velocityY = vy, !.y = y]

\* if (!this.isGrounded) { ... }: velocityY first, then y with the new
\* velocityY, then the landing test.
ApplyGravity(P, dt) ==
    IF P.isGrounded THEN P
    ELSE LET vy == P.velocityY + (P.gravity * dt) \div Sec(1, 1)
             y  == P.y + vy * dt
         IN  IF y >= P.groundY
             THEN Emit([P EXCEPT !.y = P.groundY, !.velocityY = 0,
                                 !.isGrounded = TRUE, !.isJumping = FALSE,
                                 !.jumpSquash = Squash(3)],
                       "onLand", <<>>)
             ELSE [P EXCEPT !.velocityY = vy, !.y = y]

\* this.jumpSquash *= 0.85
DecaySquash_GroundedOnly(P) ==
    IF P.jumpSquash.tenths = 0 \/ ~P.isGrounded THEN P
    ELSE [P EXCEPT !.jumpSquash.decays = Min(@ + 1, MaxDecays)]

DecaySquash(P) ==
    IF P.jumpSquash.tenths = 0 THEN P
    ELSE [P EXCEPT !.jumpSquash.decays = Min(@ + 1, MaxDecays)]

\* const constrained = collision.constrainPlayer(this); ...
Constrain(P, C) ==
    LET constrained == constrainPlayer(C, P)
    IN  IF P.isGrounded
        THEN [P EXCEPT !.x = constrained.x, !.y = constrained.y, !.groundY = constrained.y]
        ELSE [P EXCEPT !.x = constrained.x]

\* stepInterval: 0.18 s sprinting, 0.3 s walking.
StepInterval(P) == IF P.isSprinting THEN Sec(18, 100) ELSE Sec(3, 10)

Footsteps_NoReset(P, dt) ==
    IF P.isMoving /\ P.isGrounded
    THEN IF P.stepTimer + dt >= StepInterval(P)
         THEN Emit([P EXCEPT !.stepTimer = 0], "onStep", <<P.isSprinting>>)
         ELSE [P EXCEPT !.stepTimer = @ + dt]
    ELSE P

\* The footstep timer of the walk animation block.
Footsteps(P, dt) ==
    IF P.isMoving /\ P.isGrounded
    THEN IF P.stepTimer + dt >= StepInterval(P)
         THEN Emit([P EXCEPT !.stepTimer = 0], "onStep", <<P.isSprinting>>)
         ELSE [P EXCEPT !.stepTimer = @ + dt]
    ELSE [P EXCEPT !.stepTimer = 0]

\* update(input, collision, dt)
Player_update(P, I, C, dt) ==
    Footsteps(
        Constrain(
            DecaySquash(ApplyGravity(Jump(Horizontal([P EXCEPT !.emitted = <<>>], I, dt), I), dt)),
            C),
        dt)

(***************************************************************************)
(* Camera                                                                  *)
(*                                                                         *)
(* Lengths are in pixels and time in units of 1/6000 s.  The lerp          *)
(* this.x += (desiredX - this.x) * 0.08 leaves the whole numbers, so x and *)
(* the shake offsets are exact fractions [n, d] in lowest terms with       *)
(* d > 0; the target's x is such a fraction too.  Math.random() is a       *)
(* choice the caller makes: (Math.random() - 0.5) * 2 lies in [-1, 1) and  *)
(* is passed in halves.                                                    *)
(***************************************************************************)
\* Euclid's algorithm, as a function so that each remainder is computed once.
Euclid[a \in Nat, b \in Nat] == IF b = 0 THEN a ELSE Euclid[b, a % b]

GCD(a, b) == Euclid[a, b]

\* The fraction n/d in lowest terms, d > 0.
Frac(n, d) ==
    LET s == IF d < 0 THEN -1 ELSE 1
        g == GCD(IF n < 0 THEN -n ELSE n, s * d)
    IN  [n |-> (s * n) \div g, d |-> (s * d) \div g]

FracLess(p, q) == p.n * q.d < q.n * p.d

FracLeq(p, q) == p.n * q.d <= q.n * p.d

FracMin(p, q) == IF FracLess(q, p) THEN q ELSE p

FracMax(p, q) == IF FracLess(p, q) THEN q ELSE p

FracAbs(p) == IF p.n < 0 THEN [p EXCEPT !.n = -p.n] ELSE p

FracAdd(p, q) == Frac(p.n * q.d + q.n * p.d, p.d * q.d)

FracNeg(p) == [p EXCEPT !.n = -p.n]

\* Math.round: the nearest whole number, halves upwards.
Round(p) == (2 * p.n + p.d) \div (2 * p.d)

Whole(n) == [n |-> n, d |-> 1]

Camera_new(canvasWidth, canvasHeight, worldWidth) ==
    [x |-> Whole(0), y |-> 0, width |-> canvasWidth, height |-> canvasHeight,
     worldWidth |-> worldWidth,
     shakeIntensity |-> 0, shakeDuration |-> 0, shakeTimer |-> 0,
     shakeOffsetX |-> Whole(0), shakeOffsetY |-> Whole(0)]

Camera_resize(Cam, canvasWidth, canvasHeight) ==
    [Cam EXCEPT !.width = canvasWidth, !.height = canvasHeight]

\* desiredX = target.x - this.width / 2
DesiredX(targetX, width) == Frac(2 * targetX.n - width * targetX.d, 2 * targetX.d)

\* this.x += (desiredX - this.x) * 0.08
Lerp_Spring(x, targetX, width) ==
    LET desiredX == DesiredX(targetX, width)
    IN  Frac(27 * desiredX.n * x.d - 2 * x.n * desiredX.d, 25 * x.d * desiredX.d)

Lerp(x, targetX, width) ==
    LET desiredX == DesiredX(targetX, width)
    IN  Frac(23 * x.n * desiredX.d + 2 * desiredX.n * x.d, 25 * x.d * desiredX.d)

Follow_NoFloor(Cam, targetX) ==
    [Cam EXCEPT !.x = FracMin(Lerp(Cam.x, targetX, Cam.width),
                              Whole(Cam.worldWidth - Cam.width)),
                !.y = 0]

\* The follow part of update(): lerp, then Math.max(0, Math.min(x, worldWidth - width)).
Follow(Cam, targetX) ==
    [Cam EXCEPT !.x = FracMax(Whole(0),
                              FracMin(Lerp(Cam.x, targetX, Cam.width),
                                      Whole(Cam.worldWidth - Cam.width))),
                !.y = 0]

\* The shake part of update(); rx and ry are (Math.random() - 0.5) * 2 in halves.
UpdateShake(Cam, dt, rx, ry) ==
    IF Cam.shakeTimer > 0
    THEN LET timer == Cam.shakeTimer - dt
         IN  [Cam EXCEPT !.shakeTimer = timer,
                         !.shakeOffsetX = Frac(rx * Cam.shakeIntensity * timer,
                                               2 * Cam.shakeDuration),
                         !.shakeOffsetY = Frac(ry * Cam.shakeIntensity * timer,
                                               2 * Cam.shakeDuration)]
    ELSE [Cam EXCEPT !.shakeOffsetX = Whole(0), !.shakeOffsetY = Whole(0)]

\* update(target, dt)
Camera_update(Cam, targetX, dt, rx, ry) == UpdateShake(Follow(Cam, targetX), dt, rx, ry)

\* shake(intensity, duration)
shake(Cam, intensity, duration) ==
    [Cam EXCEPT !.shakeIntensity = intensity, !.shakeDuration = duration,
                !.shakeTimer = duration]

\* isVisible(worldX, worldY, width, height); the rectangle is given in
\* fractions of a pixel.
isVisible_Inclusive(Cam, worldX, worldY, width, height) ==
    /\ FracLeq(Cam.x, FracAdd(worldX, width))
    /\ FracLeq(worldX, FracAdd(Cam.x, Whole(Cam.width)))
    /\ FracLeq(Whole(Cam.y), FracAdd(worldY, height))
    /\ FracLeq(worldY, Whole(Cam.y + Cam.height))

isVisible(Cam, worldX, worldY, width, height) ==
    /\ FracLess(Cam.x, FracAdd(worldX, width))
    /\ FracLess(worldX, FracAdd(Cam.x, Whole(Cam.width)))
    /\ FracLess(Whole(Cam.y), FracAdd(worldY, height))
    /\ FracLess(worldY, Whole(Cam.y + Cam.height))

(***************************************************************************)
(* The 2D drawing context: the current translation, the stack of saved     *)
(* translations, and the list of what has been drawn, each entry with the  *)
(* translation and the stack depth it was drawn under.                     *)
(***************************************************************************)
Context_new == [tx |-> Whole(0), ty |-> Whole(0), saved |-> <<>>, drawn |-> <<>>]

save(ctx) == [ctx EXCEPT !.saved = Append(@, [tx |-> ctx.tx, ty |-> ctx.ty])]

\* restore() does nothing when the stack is empty.
restore(ctx) ==
    IF ctx.saved = <<>> THEN ctx
    ELSE [ctx EXCEPT !.tx = ctx.saved[Len(ctx.saved)].tx,
                     !.ty = ctx.saved[Len(ctx.saved)].ty,
                     !.saved = SubSeq(@, 1, Len(@) - 1)]

translate(ctx, x, y) == [ctx EXCEPT !.tx = FracAdd(@, x), !.ty = FracAdd(@, y)]

\* A fill, stroke or text call of the layer named.
Draw(ctx, layer) ==
    [ctx EXCEPT !.drawn = Append(@, [layer |-> layer, tx |-> ctx.tx, ty |-> ctx.ty,
                                     depth |-> Len(ctx.saved)])]

applyTransform_NoSave(Cam, ctx) ==
    translate(ctx,
              FracAdd(Whole(-Round(Cam.x)), Cam.shakeOffsetX),
              FracAdd(Whole(-Round(Whole(Cam.y))), Cam.shakeOffsetY))

\* applyTransform(ctx)
applyTransform(Cam, ctx) ==
    translate(save(ctx),
              FracAdd(Whole(-Round(Cam.x)), Cam.shakeOffsetX),
              FracAdd(Whole(-Round(Whole(Cam.y))), Cam.shakeOffsetY))

\* resetTransform(ctx)
resetTransform(Cam, ctx) == restore(ctx)

(***************************************************************************)
(* The world of the model: one NPC, then clear ground, then one building.  *)
(* The world data module is not part of the sources, so the geometry is    *)
(* chosen here, in pixels.                                                 *)
(***************************************************************************)
GameWorldWidth == 240    \* WORLD_CONFIG.width

GameGroundY == 400       \* canvasH * WORLD_CONFIG.groundFraction

PlayerStart == 100       \* WORLD_CONFIG.playerStart

BuildingX == 220         \* left edge of the building

BuildingWidth == 20 

NpcX == 20 

BuildingHeight == 60 

SkillX == 150 

Buildings == <<[x |-> Px(BuildingX), width |-> Px(BuildingWidth), height |-> Px(BuildingHeight)]>>

Npcs == <<[x |-> Px(NpcX)]>>

Skills == <<[x |-> Px(SkillX)]>>

RECURSIVE AddBuildingZones(_, _, _)
AddBuildingZones(C, groundY, i) ==
    IF i > Len(Buildings) THEN C
    ELSE LET b == Buildings[i]
         IN  AddBuildingZones(
                 addInteractiveZone(C, b.x - Px(30), groundY - b.height,
                                    b.width + Px(60), b.height, "building"),
                 groundY, i + 1)

RECURSIVE AddNpcZones(_, _, _)
AddNpcZones(C, groundY, i) ==
    IF i > Len(Npcs) THEN C
    ELSE AddNpcZones(
             addInteractiveZone(C, Npcs[i].x - Px(50), groundY - Px(60), Px(100), Px(60), "npc"),
             groundY, i + 1)

RECURSIVE AddSkillZones(_, _, _)
AddSkillZones(C, groundY, i) ==
    IF i > Len(Skills) THEN C
    ELSE AddSkillZones(
             addInteractiveZone(C, Skills[i].x - Px(40), groundY - Px(100), Px(80), Px(100), "skill"),
             groundY, i + 1)

setupCollisions_NoClear(C, groundY) ==
    AddSkillZones(AddNpcZones(AddBuildingZones(C, groundY, 1), groundY, 1), groundY, 1)

\* world.setupCollisions(collisionSystem), groundY being the world's groundY
setupCollisions(C, groundY) ==
    AddSkillZones(AddNpcZones(AddBuildingZones(clearZones(C), groundY, 1), groundY, 1),
                  groundY, 1)

Abs(n) == IF n < 0 THEN -n ELSE n

\* checkInteractions(playerX, range): the type of the interaction returned.
\* A building is within reach when |playerX - (b.x + b.width/2)| is less
\* than range + b.width/2 (both sides doubled here), an NPC when
\* |playerX - n.x| is less than range; buildings are looked at first.
checkInteractions(playerX, range) ==
    IF \E i \in 1..Len(Buildings) :
          Abs(2 * playerX - (2 * Buildings[i].x + Buildings[i].width))
              < 2 * range + Buildings[i].width
    THEN "building"
    ELSE IF \E i \in 1..Len(Npcs) : Abs(playerX - Npcs[i].x) < range
         THEN "npc"
         ELSE "null"

(***************************************************************************)
(* DialogueSystem and ModalSystem: the open flags, and whether the         *)
(* typewriter has finished and put the "Enter Project" button in place.    *)
(***************************************************************************)
DialogueSystem_new == [isOpen |-> FALSE, button |-> FALSE]

openBuilding(D) == IF D.isOpen THEN D ELSE [isOpen |-> TRUE, button |-> FALSE]

DialogueSystem_close(D) == [D EXCEPT !.isOpen = FALSE]

ModalSystem_new == [isOpen |-> FALSE]

\* open(building): the flag
ModalSystem_open(M) == IF M.isOpen THEN M ELSE [M EXCEPT !.isOpen = TRUE]

\* open(building): the screen shake, this.camera.shake(3, 0.2)
ModalSystem_shake(M, Cam) == IF M.isOpen THEN Cam ELSE shake(Cam, 3, Sec(2, 10))

ModalSystem_close(M) == [M EXCEPT !.isOpen = FALSE]

(***************************************************************************)
(* gameUpdate(dt)                                                          *)
(*                                                                         *)
(* G holds the objects gameUpdate works on and the list of the calls it    *)
(* has made on the InputManager so far in this tick.  world.update and     *)
(* particles.update take no InputManager and change only the animation     *)
(* clocks of the scenery, which are not modelled.                          *)
(***************************************************************************)
Game_new ==
    [player |-> AudioCallbacks(Player_new(Px(PlayerStart), Px(GameGroundY))),
     dialogue |-> DialogueSystem_new, modal |-> ModalSystem_new,
     isNight |-> FALSE, currentInteraction |-> "null"]

\* A call of an input predicate.
Query(G, name) == [G EXCEPT !.log = Append(@, name)]

\* input.endFrame()
CallEndFrame(G) == [G EXCEPT !.input = endFrame(@), !.log = Append(@, "endFrame")]

\* G with the overlay closed if the condition holds.
CloseModalIf(G, cond) ==
    IF cond THEN [G EXCEPT !.game.modal = ModalSystem_close(@)] ELSE G

CloseDialogueIf(G, cond) ==
    IF cond THEN [G EXCEPT !.game.dialogue = DialogueSystem_close(@)] ELSE G

\* if (modalSystem.isOpen) { ... }
ModalTick(G) ==
    CallEndFrame(CloseModalIf(Query(G, "isClosePressed"), isClosePressed(G.input)))

\* input.isClosePressed() || input.isInteractPressed(): the right side is
\* asked only when the left side is false.
QueryCloseOrInteract(G) ==
    IF isClosePressed(G.input)
    THEN Query(G, "isClosePressed")
    ELSE Query(Query(G, "isClosePressed"), "isInteractPressed")

DialogueTick_EndFrameFirst(G) ==
    CloseDialogueIf(QueryCloseOrInteract(CallEndFrame(G)),
                    isClosePressed(endFrame(G.input)) \/ isInteractPressed(endFrame(G.input)))

\* if (dialogueSystem.isOpen) { ... }
DialogueTick(G) ==
    CallEndFrame(
        CloseDialogueIf(QueryCloseOrInteract(G),
                        isClosePressed(G.input) \/ isInteractPressed(G.input)))

RECURSIVE QueryAll(_, _, _)
QueryAll(G, names, i) ==
    IF i > Len(names) THEN G ELSE QueryAll(Query(G, names[i]), names, i + 1)

\* if (input.isThemeTogglePressed()) themeManager.toggle();
ThemeToggle(G) ==
    IF isThemeTogglePressed(G.input)
    THEN [Query(G, "isThemeTogglePressed") EXCEPT !.game.isNight = ~@]
    ELSE Query(G, "isThemeTogglePressed")

\* player.update(input, collision, dt)
UpdatePlayer(G, C, dt) ==
    [QueryAll(G, PlayerQueries, 1) EXCEPT !.game.player = Player_update(@, G.input, C, Ms(dt))]

\* const interaction = world.checkInteractions(player.x, 90); ... up to the
\* end of the if / else.
Interact(G, interaction) ==
    IF interaction = "building"
    THEN IF isInteractPressed(G.input)
         THEN [Query(G, "isInteractPressed") EXCEPT
                  !.game.currentInteraction = interaction,
                  !.game.dialogue = openBuilding(@)]
         ELSE [Query(G, "isInteractPressed") EXCEPT !.game.currentInteraction = interaction]
    ELSE [G EXCEPT !.game.currentInteraction = interaction]

CheckInteractions(G) == Interact(G, checkInteractions(G.game.player.x, Px(90)))

\* The player as the camera's target: x in pixels.
Target(P) == Frac(P.x, Px(1))

\* camera.update(player, dt)
UpdateCamera(G, dt, rx, ry) ==
    [G EXCEPT !.camera = Camera_update(@, Target(G.game.player), Ms(dt), rx, ry)]

PlayTick_CameraFirst(G, C, dt, rx, ry) ==
    CallEndFrame(CheckInteractions(UpdatePlayer(UpdateCamera(ThemeToggle(G), dt, rx, ry), C, dt)))

\* The rest of gameUpdate: neither overlay is open.
PlayTick(G, C, dt, rx, ry) ==
    CallEndFrame(CheckInteractions(UpdateCamera(UpdatePlayer(ThemeToggle(G), C, dt), dt, rx, ry)))

gameUpdate_ModalUnchecked(G, C, dt, rx, ry) ==
    IF G.game.dialogue.isOpen THEN DialogueTick(G)
    ELSE PlayTick(G, C, dt, rx, ry)

gameUpdate(G, C, dt, rx, ry) ==
    IF G.game.modal.isOpen THEN ModalTick(G)
    ELSE IF G.game.dialogue.isOpen THEN DialogueTick(G)
    ELSE PlayTick(G, C, dt, rx, ry)

(***************************************************************************)
(* gameRender(dt)                                                          *)
(*                                                                         *)
(* Every layer is drawn into one context.  The scenery that comes from the *)
(* missing world data (signs, benches, trees, fences, flowers, lamps) and  *)
(* the particles are one draw per layer; an NPC's speech bubble fades over *)
(* several frames and is drawn here in the frames in which the NPC is the  *)
(* current interaction.  gy is world.groundY.                              *)
(***************************************************************************)
\* A length of the player's units, in pixels.
InPx(v) == Frac(v, Px(1))

\* The scroll factors of the three parallax layers, in hundredths.
ScrollFactors == <<15, 35, 55>>

\* ParallaxLayer.render: save, translate(-camera.x * scrollFactor, 0), draw, restore.
ParallaxLayer_render(ctx, Cam, scrollFactor) ==
    restore(Draw(translate(save(ctx),
                           FracNeg(Frac(Cam.x.n * scrollFactor, Cam.x.d * 100)),
                           Whole(0)),
                 "parallax"))

RECURSIVE RenderParallax(_, _, _)
RenderParallax(ctx, Cam, i) ==
    IF i > Len(ScrollFactors) THEN ctx
    ELSE RenderParallax(ParallaxLayer_render(ctx, Cam, ScrollFactors[i]), Cam, i + 1)

\* Building.render, NPC.render, SkillIcon.render: save ... restore.
Entity_render(ctx, layer) == restore(Draw(save(ctx), layer))

RECURSIVE RenderBuildings(_, _, _, _)
RenderBuildings(ctx, Cam, gy, i) ==
    IF i > Len(Buildings) THEN ctx
    ELSE LET b == Buildings[i]
         IN  RenderBuildings(
                 IF isVisible(Cam, InPx(b.x - Px(20)), InPx(gy - b.height - Px(20)),
                              InPx(b.width + Px(40)), InPx(b.height + Px(40)))
                 THEN Entity_render(ctx, "building") ELSE ctx,
                 Cam, gy, i + 1)

RECURSIVE RenderNpcs(_, _, _, _)
RenderNpcs(ctx, Cam, gy, i) ==
    IF i > Len(Npcs) THEN ctx
    ELSE RenderNpcs(
             IF isVisible(Cam, InPx(Npcs[i].x - Px(30)), InPx(gy - Px(70)), Whole(60), Whole(70))
             THEN Entity_render(ctx, "npc") ELSE ctx,
             Cam, gy, i + 1)

RECURSIVE RenderSkills(_, _, _, _)
RenderSkills(ctx, Cam, gy, i) ==
    IF i > Len(Skills) THEN ctx
    ELSE RenderSkills(
             IF isVisible(Cam, InPx(Skills[i].x - Px(30)), InPx(gy - Px(110)), Whole(60), Whole(110))
             THEN Entity_render(ctx, "skill") ELSE ctx,
             Cam, gy, i + 1)

\* world.render(ctx, camera): layers 0 to 6.5
World_render(ctx, Cam, gy) ==
    resetTransform(Cam,
        RenderSkills(
            RenderNpcs(
                Draw(Draw(RenderBuildings(applyTransform(Cam, RenderParallax(Draw(ctx, "sky"), Cam, 1)),
                                          Cam, gy, 1),
                          "ground"),
                     "signs"),
                Cam, gy, 1),
            Cam, gy, 1))

\* Player.render: the body is drawn under translate(this.x, this.y).
Player_render(ctx, P) ==
    restore(Draw(translate(save(ctx), InPx(P.x), InPx(P.y)), "player"))

\* world.renderForeground(ctx, camera)
renderForeground(ctx, Cam) ==
    resetTransform(Cam, Draw(applyTransform(Cam, ctx), "foreground"))

\* particles.render(ctx, camera)
ParticleSystem_render(ctx, Cam) ==
    resetTransform(Cam, Draw(applyTransform(Cam, ctx), "particles"))

\* world.renderSpeechBubbles(ctx, camera)
renderSpeechBubbles(ctx, Cam, speaking) ==
    resetTransform(Cam,
        IF speaking THEN Entity_render(applyTransform(Cam, ctx), "speech")
        ELSE applyTransform(Cam, ctx))

\* Layer 7: camera.applyTransform(ctx); player.render(ctx); camera.resetTransform(ctx)
RenderPlayer(ctx, Cam, P) ==
    resetTransform(Cam, Player_render(applyTransform(Cam, ctx), P))

gameRender(ctx, G, Cam, gy) ==
    renderSpeechBubbles(
        ParticleSystem_render(
            renderForeground(
                RenderPlayer(World_render(Draw(ctx, "clear"), Cam, gy), Cam, G.player),
                Cam),
            Cam),
        Cam, G.currentInteraction = "npc")

(***************************************************************************)
(* The game in its environment: keys go down and up, the scheduler runs    *)
(* gameUpdate (its only update callback) once per tick, the typewriter     *)
(* finishes, and the visitor clicks the buttons of the overlays.           *)
(***************************************************************************)
\* The e.key values of the keys the visitor uses.
GameKeys == {"d", "e", "Escape"}

\* Every tick is a slow one: the frame gap is at the ceiling or above it.
GameDts == {DtCapMs}

NoCalls == [path |-> "none", log |-> <<>>]

CanvasWidth == 120       \* window.innerWidth when the page loads

CanvasHeight == 500      \* window.innerHeight when the page loads

NoRun == [kind |-> "none"]

MaxDenominator == 625    \* update() is not called on an x with a denominator this large

\* (Math.random() - 0.5) * 2 lies in [-1, 1); in halves: -1 and 1/2.
RandomHalves == {-2, 1}

\* Math.random() is called in the shaking branch of update() only.
Randoms(Cam) == IF Cam.shakeTimer > 0 THEN RandomHalves ELSE {0}

\* const camera = new Camera(canvasW, canvasH, WORLD_CONFIG.width)
PlayInit ==
    /\ camera = Camera_new(CanvasWidth, CanvasHeight, GameWorldWidth)
    /\ run = NoRun

GameInit ==
    /\ game = Game_new
    /\ calls = NoCalls

\* 'keydown' reaches the InputManager's listener and the ModalSystem's.
PressKey ==
    /\ \E eKey \in GameKeys :
          /\ input' = onKeyDown(input, eKey)
          /\ game' = IF eKey = "Escape" /\ game.modal.isOpen
                     THEN [game EXCEPT !.modal = ModalSystem_close(@)]
                     ELSE game
    /\ UNCHANGED <<physDown, press, quiet, calls, loopVars, collisionVars, playVars>>

ReleaseKey ==
    /\ \E eKey \in GameKeys : input' = onKeyUp(input, eKey)
    /\ UNCHANGED <<physDown, press, quiet, gameVars, loopVars, collisionVars, playVars>>

\* The typewriter reaches the end of the text and appends the button.
TypewriterDone ==
    /\ game.dialogue.isOpen
    /\ ~game.dialogue.button
    /\ game' = [game EXCEPT !.dialogue.button = TRUE]
    /\ UNCHANGED <<calls, inputVars, loopVars, collisionVars, playVars>>

\* Click on "Enter Project": onEnterProject opens the modal, then close().
ClickEnterProject ==
    /\ game.dialogue.isOpen
    /\ game.dialogue.button
    /\ game' = [game EXCEPT !.modal = ModalSystem_open(@),
                            !.dialogue = DialogueSystem_close(@)]
    /\ camera' = ModalSystem_shake(game.modal, camera)
    /\ UNCHANGED <<calls, inputVars, loopVars, collisionVars, run>>

\* Click on the close button of the dialogue box.
ClickDialogueClose ==
    /\ game.dialogue.isOpen
    /\ game' = [game EXCEPT !.dialogue = DialogueSystem_close(@)]
    /\ UNCHANGED <<calls, inputVars, loopVars, collisionVars, playVars>>

\* Click on the close button of the modal or on its backdrop.
ClickModalClose ==
    /\ game.modal.isOpen
    /\ game' = [game EXCEPT !.modal = ModalSystem_close(@)]
    /\ UNCHANGED <<calls, inputVars, loopVars, collisionVars, playVars>>

\* One tick of the scheduler: it calls gameUpdate(dt).
GameUpdate ==
    /\ camera.x.d < MaxDenominator
    /\ \E dt \in GameDts, rx \in Randoms(camera), ry \in Randoms(camera) :
          LET path == IF game.modal.isOpen THEN "modal"
                      ELSE IF game.dialogue.isOpen THEN "dialogue" ELSE "play"
              G == gameUpdate([game |-> game, input |-> input, camera |-> camera,
                               log |-> <<>>], collision, dt, rx, ry)
          IN  /\ game' = G.game
              /\ input' = G.input
              /\ camera' = G.camera
              /\ calls' = [path |-> path, log |-> G.log]
    /\ UNCHANGED <<physDown, press, quiet, loopVars, collisionVars, run>>

GameNext ==
    \/ PressKey
    \/ ReleaseKey
    \/ TypewriterDone
    \/ ClickEnterProject
    \/ ClickDialogueClose
    \/ ClickModalClose
    \/ GameUpdate

Init ==
    /\ LoopInit
    /\ InputInit(FALSE)
    /\ CollisionInit
    /\ GameInit
    /\ PlayInit

SpecLoop == Init /\ [][LoopNext]_vars

SpecCollision == Init /\ [][CollisionNext]_vars

(***************************************************************************)
(* The scheduler with the browser's frame time: the timestamp a frame      *)
(* passes to its callbacks is the time the frame was due, which is never   *)
(* before the timestamp of the frame before it, but may be before the      *)
(* performance.now() that a task running late into the frame has read.     *)
(* run holds the timestamp of the latest frame.                            *)
(***************************************************************************)
FrameLeads == {0, 20}    \* ms between the time a frame was due and the time it runs

StampedFrame ==
    /\ ~InFrame
    /\ rafQueue > 0
    /\ loop.frameCount + rafQueue <= MaxFrameCount
    /\ \E lead \in FrameLeads :
          /\ now - lead >= 0
          /\ run.kind = "frame" => now - lead >= run.timestamp
          /\ run' = [kind |-> "frame", timestamp |-> now - lead]
    /\ frameLeft' = rafQueue
    /\ rafQueue' = 0
    /\ ticks' = <<>>
    /\ UNCHANGED <<loop, now, hist>>
    /\ UNCHANGED <<inputVars, collisionVars, gameVars, camera>>

\* The frame runs its next callback, _boundTick, with the frame's timestamp.
StampedTick ==
    /\ InFrame
    /\ LET S == tick([loop |-> loop, raf |-> rafQueue, calls |-> <<>>], run.timestamp, now)
       IN  /\ loop' = S.loop
           /\ rafQueue' = S.raf
           /\ ticks' = Append(ticks,
                  [ran |-> loop.isRunning, raw |-> run.timestamp - loop.lastTimestamp,
                   ctl |-> hist.lastCtl,
                   fns |-> loop.updateCallbacks \o loop.renderCallbacks,
                   nU |-> Len(loop.updateCallbacks),
                   calls |-> S.calls])
    /\ hist' = IF loop.isRunning
               THEN NoteCallbacks(loop.updateCallbacks \o loop.renderCallbacks, 1, hist)
               ELSE hist
    /\ frameLeft' = frameLeft - 1
    /\ UNCHANGED now
    /\ UNCHANGED <<inputVars, collisionVars, gameVars, playVars>>

ClockNext ==
    \/ Elapse
    \/ OnUpdate
    \/ Start
    \/ Stop
    \/ StampedFrame
    \/ StampedTick

SpecClock == Init /\ [][ClockNext]_vars

SpecZones == Init /\ [][ZonesNext]_vars

InputNext ==
    \/ KeyDown
    \/ KeyUp
    \/ UnseenKeyDown
    \/ UnseenKeyUp
    \/ Blur
    \/ ContextMenu
    \/ VisibilityChange
    \/ TouchStart
    \/ TouchEnd
    \/ TouchCancel
    \/ EndFrame

\* The page on either kind of device: the constructor reads the touch
\* capability of the browser once.
InitAnyDevice ==
    /\ LoopInit
    /\ \E mobile \in BOOLEAN : InputInit(mobile)
    /\ CollisionInit
    /\ GameInit
    /\ PlayInit

SpecInput == InitAnyDevice /\ [][InputNext]_vars

(***************************************************************************)
(* Taps: key-downs, key-ups, forced clears and ticks on the keyboard       *)
(* alone.  run.edges holds the keys that made the Idle -> Held transition  *)
(* since the latest tick or forced clear, run.tapped those of them whose   *)
(* key-up has arrived since, and run.asked what the latest tick's queries  *)
(* answered for the jump and the interact key.                             *)
(***************************************************************************)
TapKeys == {" ", "e", "E", "a"}

InitTap ==
    /\ LoopInit
    /\ InputInit(FALSE)
    /\ CollisionInit
    /\ GameInit
    /\ camera = Camera_new(CanvasWidth, CanvasHeight, GameWorldWidth)
    /\ run = [kind |-> "tap", edges |-> {}, tapped |-> {}, ticks |-> 0,
              asked |-> [jump |-> FALSE, interact |-> FALSE]]

\* 'keydown'
TapKeyDown ==
    /\ \E eKey \in TapKeys :
          LET key == toLowerCase(eKey)
          IN  /\ input' = onKeyDown(input, eKey)
              /\ run' = [run EXCEPT !.edges = IF key \in input.keys THEN @ ELSE @ \cup {key},
                                    !.tapped = @ \ {key}]
    /\ UNCHANGED <<physDown, press, quiet, loopVars, collisionVars, gameVars, camera>>

\* 'keyup'
TapKeyUp ==
    /\ \E eKey \in TapKeys :
          LET key == toLowerCase(eKey)
          IN  /\ input' = onKeyUp(input, eKey)
              /\ run' = [run EXCEPT !.tapped = IF key \in run.edges THEN @ \cup {key} ELSE @]
    /\ UNCHANGED <<physDown, press, quiet, loopVars, collisionVars, gameVars, camera>>

\* 'blur', 'contextmenu', or 'visibilitychange' to hidden
TapForcedClear ==
    /\ input' = clearAllKeys(input)
    /\ run' = [run EXCEPT !.edges = {}, !.tapped = {}]
    /\ UNCHANGED <<physDown, press, quiet, loopVars, collisionVars, gameVars, camera>>

\* A tick: the game asks its edge queries and calls endFrame().
TapTick ==
    /\ input' = endFrame(input)
    /\ run' = [run EXCEPT !.edges = {}, !.tapped = {}, !.ticks = Min(@ + 1, 2),
                          !.asked = [jump |-> isJumpPressed(input),
                                     interact |-> isInteractPressed(input)]]
    /\ UNCHANGED <<physDown, press, quiet, loopVars, collisionVars, gameVars, camera>>

TapNext ==
    \/ TapKeyDown
    \/ TapKeyUp
    \/ TapForcedClear
    \/ TapTick

SpecTap == InitTap /\ [][TapNext]_vars

\* The page as main.js builds it: the resolver spans the world and holds no
\* solid zone.  The window is as wide as the world, so the camera stays at
\* the left end however long the game runs.
InitGame ==
    /\ LoopInit
    /\ InputInit(FALSE)
    /\ collision = setupCollisions(CollisionSystem_new(Px(GameWorldWidth), Px(GameGroundY)),
                                    Px(GameGroundY))
    /\ probe = NoProbe
    /\ GameInit
    /\ camera = Camera_new(GameWorldWidth, CanvasHeight, GameWorldWidth)
    /\ run = NoRun

SpecGame == InitGame /\ [][GameNext]_vars

(***************************************************************************)
(* The game with the jump key: the jump and the walk key go down and up    *)
(* between ticks.  run holds what the latest tick found when it started.   *)
(***************************************************************************)
JumpGameKeys == {" ", "d"}

JumpKeyDown ==
    /\ \E eKey \in JumpGameKeys : input' = onKeyDown(input, eKey)
    /\ UNCHANGED <<physDown, press, quiet, gameVars, loopVars, collisionVars, playVars>>

JumpKeyUp ==
    /\ \E eKey \in JumpGameKeys : input' = onKeyUp(input, eKey)
    /\ UNCHANGED <<physDown, press, quiet, gameVars, loopVars, collisionVars, playVars>>

\* gameUpdate(dt)
JumpFrame ==
    /\ \E dt \in GameDts :
          LET G == gameUpdate([game |-> game, input |-> input, camera |-> camera,
                               log |-> <<>>], collision, dt, 0, 0)
          IN  /\ game' = G.game
              /\ input' = G.input
              /\ camera' = G.camera
              /\ calls' = [path |-> "play", log |-> G.log]
              /\ run' = [kind |-> "tick", dt |-> dt, edge |-> isJumpPressed(input),
                         airborne |-> ~game.player.isGrounded]
    /\ UNCHANGED <<physDown, press, quiet, loopVars, collisionVars>>

JumpNext ==
    \/ JumpKeyDown
    \/ JumpKeyUp
    \/ JumpFrame

SpecJump == InitGame /\ [][JumpNext]_vars

(***************************************************************************)
(* The same page in a window narrower than the world, with the player      *)
(* starting next to the building at the right end: the camera follows the  *)
(* player, for as many ticks as keep its x below MaxDenominator, and every *)
(* tick of the scheduler runs gameUpdate and then gameRender.  run holds   *)
(* the drawing context as the latest gameRender left it.                   *)
(***************************************************************************)
FrameStart == 220        \* WORLD_CONFIG.playerStart of this page

InitFrame ==
    /\ LoopInit
    /\ InputInit(FALSE)
    /\ collision = setupCollisions(CollisionSystem_new(Px(GameWorldWidth), Px(GameGroundY)),
                                    Px(GameGroundY))
    /\ probe = NoProbe
    /\ game = [Game_new EXCEPT !.player = AudioCallbacks(Player_new(Px(FrameStart), Px(GameGroundY)))]
    /\ calls = NoCalls
    /\ PlayInit

\* One tick of the scheduler: it calls gameUpdate(dt), then gameRender(dt).
GameFrame ==
    /\ camera.x.d < MaxDenominator
    /\ \E dt \in GameDts, rx \in Randoms(camera), ry \in Randoms(camera) :
          LET path == IF game.modal.isOpen THEN "modal"
                      ELSE IF game.dialogue.isOpen THEN "dialogue" ELSE "play"
              G == gameUpdate([game |-> game, input |-> input, camera |-> camera,
                               log |-> <<>>], collision, dt, rx, ry)
          IN  /\ game' = G.game
              /\ input' = G.input
              /\ camera' = G.camera
              /\ calls' = [path |-> path, log |-> G.log]
              /\ run' = [kind |-> "frame", dt |-> dt,
                         ctx |-> gameRender(Context_new, game', camera', collision.groundY)]
    /\ UNCHANGED <<physDown, press, quiet, loopVars, collisionVars>>

FrameNext ==
    \/ PressKey
    \/ ReleaseKey
    \/ TypewriterDone
    \/ ClickEnterProject
    \/ ClickDialogueClose
    \/ ClickModalClose
    \/ GameFrame

SpecFrame == InitFrame /\ [][FrameNext]_vars

(***************************************************************************)
(* The camera on its own: it is told to follow targets anywhere, inside    *)
(* the world or outside it, the window is resized to any width, narrower   *)
(* or wider than the world, and shakes are started.                        *)
(***************************************************************************)
TargetXs == {-50, 100, GameWorldWidth + 60}

ViewWidths == {CanvasWidth, GameWorldWidth - 10, GameWorldWidth + 60}

CameraDts == {Sec(6, 100), Sec(1, 10)}

ShakeIntensities == {3}

ShakeDurations == {Sec(2, 10)}

CameraUpdate ==
    /\ camera.x.d < MaxDenominator
    /\ \E targetX \in TargetXs, dt \in CameraDts, rx \in RandomHalves, ry \in RandomHalves :
          /\ camera' = Camera_update(camera, Whole(targetX), dt, rx, ry)
          /\ run' = [kind |-> "update", targetX |-> targetX]
    /\ UNCHANGED <<loopVars, inputVars, collisionVars, gameVars>>

CameraResize ==
    /\ \E canvasWidth \in ViewWidths :
          camera' = Camera_resize(camera, canvasWidth, CanvasHeight)
    /\ run' = [kind |-> "resize"]
    /\ UNCHANGED <<loopVars, inputVars, collisionVars, gameVars>>

CameraShake ==
    /\ \E intensity \in ShakeIntensities, duration \in ShakeDurations :
          camera' = shake(camera, intensity, duration)
    /\ run' = [kind |-> "shake"]
    /\ UNCHANGED <<loopVars, inputVars, collisionVars, gameVars>>

(***************************************************************************)
(* The Camera asked what is visible: the camera follows targets, the       *)
(* window is resized (to nothing, for a minimised window), and isVisible   *)
(* is called for rectangles left of, across, inside and right of the       *)
(* viewport, rectangles of no width or height among them.                  *)
(***************************************************************************)
RectXs == {-10, 0, CanvasWidth}

RectYs == {-10, 0, CanvasHeight}

RectSizes == {0, 10}

ViewSizes == {[width |-> CanvasWidth, height |-> CanvasHeight],
              [width |-> 0, height |-> CanvasHeight],
              [width |-> CanvasWidth, height |-> 0]}

ViewFollow ==
    /\ camera.x.d < MaxDenominator
    /\ \E targetX \in TargetXs :
          /\ camera' = Camera_update(camera, Whole(targetX), 0, 0, 0)
          /\ run' = [kind |-> "update", targetX |-> targetX]
    /\ probe' = NoProbe
    /\ UNCHANGED <<loopVars, inputVars, collision, gameVars>>

ViewResize ==
    /\ \E size \in ViewSizes : camera' = Camera_resize(camera, size.width, size.height)
    /\ run' = [kind |-> "resize"]
    /\ probe' = NoProbe
    /\ UNCHANGED <<loopVars, inputVars, collision, gameVars>>

IsVisible ==
    /\ \E worldX \in RectXs, worldY \in RectYs, width \in RectSizes, height \in RectSizes :
          probe' = [called |-> FALSE,
                    rect |-> [x |-> worldX, y |-> worldY, width |-> width, height |-> height],
                    out |-> isVisible(camera, Whole(worldX), Whole(worldY),
                                      Whole(width), Whole(height))]
    /\ run' = [kind |-> "isVisible"]
    /\ UNCHANGED <<loopVars, inputVars, collision, gameVars, camera>>

ViewNext ==
    \/ ViewFollow
    \/ ViewResize
    \/ IsVisible

CameraNext ==
    \/ CameraUpdate
    \/ CameraResize
    \/ CameraShake

SpecView == Init /\ [][ViewNext]_vars

SpecCamera == Init /\ [][CameraNext]_vars

(***************************************************************************)
(* The camera with shakes of any length, some shorter than one tick.       *)
(***************************************************************************)
BriefDurations == {Sec(4, 100), Sec(2, 10)}

\* camera.shake(intensity, duration)
BriefShake ==
    /\ \E intensity \in ShakeIntensities, duration \in BriefDurations :
          camera' = shake(camera, intensity, duration)
    /\ run' = [kind |-> "shake"]
    /\ UNCHANGED <<loopVars, inputVars, collisionVars, gameVars>>

ShakeNext ==
    \/ CameraUpdate
    \/ BriefShake

SpecShake == Init /\ [][ShakeNext]_vars

(***************************************************************************)
(* Properties of the scheduler (checked under SpecLoop).                   *)
(***************************************************************************)
Range(f) == {f[i] : i \in DOMAIN f}

\* The invocations a tick record lists, without their dt.
Invoked(t) == [j \in 1..Len(t.calls) |-> <<t.calls[j].kind, t.calls[j].idx>>]

\* Every update callback in registration order, then every render callback
\* in registration order.
InOrder(t) ==
    [j \in 1..Len(t.fns) |->
        IF j <= t.nU THEN <<"update", j>> ELSE <<"render", j - t.nU>>]

\* How often the frame's ticks, together, invoked callback c.
TimesInvoked(c) ==
    Cardinality({p \in {<<i, j>> : i \in 1..Len(ticks), j \in 1..MaxCallbacks + 1} :
                    /\ p[2] <= Len(ticks[p[1]].calls)
                    /\ Invoked(ticks[p[1]])[p[2]] = c})

\* C1: as long as stop() has never been called, any number of start() calls
\* (two or more included) leaves exactly one pump: one animation-frame
\* request is outstanding, and a frame invokes every registered update and
\* render callback exactly once.
C1_StartTwiceOnePump ==
    ~hist.everStopped =>
        /\ rafQueue + frameLeft = (IF hist.starts >= 1 THEN 1 ELSE 0)
        /\ Len(ticks) <= 1
        /\ \A i \in 1..Len(ticks) :
              \A c \in Range(InOrder(ticks[i])) : TimesInvoked(c) = 1

C1_Witness ==
    /\ ~hist.everStopped
    /\ hist.starts = 2
    /\ Len(ticks) = 1
    /\ frameLeft = 0
    /\ Len(ticks[1].calls) >= 2

\* C2: a tick that runs invokes all update callbacks in registration order
\* and only then all render callbacks in registration order.
C2_UpdatesThenRenders ==
    \A i \in 1..Len(ticks) :
        ticks[i].ran => Invoked(ticks[i]) = InOrder(ticks[i])

C2_Witness ==
    \E i \in 1..Len(ticks) :
        /\ ticks[i].ran
        /\ ticks[i].nU >= 2
        /\ Len(ticks[i].fns) > ticks[i].nU
        /\ Len(ticks[i].calls) = Len(ticks[i].fns)

\* C3: the dt every callback of a tick receives is the smaller of the time
\* since the last timestamp and the 0.1 s ceiling, hence at most 0.1 s.
C3_DtIsCappedDelta ==
    \A i \in 1..Len(ticks) :
        \A j \in 1..Len(ticks[i].calls) :
            /\ ticks[i].calls[j].dt = Min(ticks[i].raw, DtCapMs)
            /\ ticks[i].calls[j].dt <= DtCapMs

C3_Witness ==
    \E i \in 1..Len(ticks) :
        /\ ticks[i].raw > DtCapMs
        /\ Len(ticks[i].calls) >= 2
        /\ ticks[i].calls[1].dt = DtCapMs

\* C4: a stop() made by a callback does not cut its tick short (every
\* callback registered is still invoked in it), and a tick that comes when
\* the last control call was not a start() invokes nothing.
C4_StopLetsTickFinish ==
    \A i \in 1..Len(ticks) :
        /\ (ticks[i].ran /\ "stop" \in Range(ticks[i].fns))
              => Len(ticks[i].calls) = Len(ticks[i].fns)
        /\ ticks[i].ctl # "start" => ticks[i].calls = <<>>

C4_Witness ==
    /\ ~loop.isRunning
    /\ hist.lastCtl = "stop"
    /\ \E i \in 1..Len(ticks) :
        /\ ticks[i].ran
        /\ ticks[i].ctl = "start"
        /\ Len(ticks[i].fns) >= 3
        /\ ticks[i].fns[1] = "stop"
        /\ Len(ticks[i].calls) = Len(ticks[i].fns)

\* A later frame after such a stop: its tick invokes nothing.
C4_WitnessLaterFrame ==
    /\ Len(ticks) = 1
    /\ ~ticks[1].ran
    /\ ticks[1].ctl = "stop"
    /\ "stop" \in Range(ticks[1].fns)

\* C31: the dt every callback receives is at least 0 and at most 0.1 s,
\* also in the first frame after a start() that read a performance.now()
\* later than the frame's timestamp.
C31_DtNotNegative ==
    \A i \in 1..Len(ticks) :
        \A j \in 1..Len(ticks[i].calls) :
            0 <= ticks[i].calls[j].dt /\ ticks[i].calls[j].dt <= DtCapMs

\* The ticks of the current animation frame that ran the callbacks.
Pumped == {i \in 1..Len(ticks) : ticks[i].ran /\ Len(ticks[i].calls) >= 1}

\* C30: whatever the order of start() and stop() calls and animation
\* frames, one animation frame runs the registered callbacks at most once.
C30_OnePumpPerFrame == Cardinality(Pumped) <= 1

(***************************************************************************)
(* Properties of the InputManager (checked under SpecInput).               *)
(***************************************************************************)
\* C5: a key-down on a key that is not held makes it held and just-pressed;
\* endFrame() clears every just-pressed entry and changes no held entry (so
\* a held key stays held over any number of endFrame() calls); a key-up
\* makes its key not held.
C5_PressThenEndFrame ==
    [][ /\ \A eKey \in KeyNames :
              (input' = onKeyDown(input, eKey) /\ KeyDown /\ toLowerCase(eKey) \notin input.keys)
                  => /\ toLowerCase(eKey) \in input'.keys
                     /\ toLowerCase(eKey) \in input'.justPressed
        /\ EndFrame => (input'.justPressed = {} /\ input'.keys = input.keys)
        /\ \A eKey \in KeyNames :
              (input' = onKeyUp(input, eKey) /\ KeyUp) => toLowerCase(eKey) \notin input'.keys
      ]_vars

\* A key that is held and no longer just-pressed, one endFrame() after its press.
C5_Witness ==
    /\ " " \in input.keys
    /\ " " \notin input.justPressed
    /\ " " \in physDown
    /\ press[" "] = [ticks |-> 1, cleared |-> FALSE, stale |-> FALSE, repeated |-> FALSE]

\* C6 as claimed: over one physical press of a key, just-pressed is seen by
\* at most one tick.
C6_OnePressOneTick == \A k \in DOMAIN press : press[k].ticks <= 1

\* C6 as amended: the same, for a press during which no forced clear (blur,
\* hidden, context menu) happened; key-downs that arrive while the key is
\* held never raise just-pressed again.
C6_OnePressOneTickUnlessCleared ==
    \A k \in DOMAIN press : ~press[k].cleared => press[k].ticks <= 1

\* A held key receives an auto-repeat key-down after a tick has consumed its edge.
C6_Witness ==
    /\ " " \in physDown
    /\ " " \in input.keys
    /\ " " \notin input.justPressed
    /\ press[" "] = [ticks |-> 1, cleared |-> FALSE, stale |-> FALSE, repeated |-> TRUE]

\* C7: after a blur, a change to hidden or a context menu, and until the
\* next key-down or touch-start, no key is held or just-pressed, no touch
\* flag is set, and the three movement predicates are false, whatever keys
\* are still physically down.
C7_ForcedClearHolds ==
    quiet =>
        /\ input.keys = {}
        /\ input.justPressed = {}
        /\ ~input.mobileLeft /\ ~input.mobileRight /\ ~input.mobileInteract
        /\ ~input.mobileSprint /\ ~input.mobileJump
        /\ ~isMovingLeft(input) /\ ~isMovingRight(input) /\ ~isSprinting(input)

\* Cleared while "a" is still physically down, and ticks have passed since.
C7_Witness ==
    /\ quiet
    /\ "a" \in physDown
    /\ press["a"].cleared
    /\ press["a"].ticks = 1
    /\ input.isMobile

(***************************************************************************)
(* Properties of taps (checked under SpecTap).                             *)
(***************************************************************************)
\* C36: a key that made the Idle -> Held transition since the latest tick,
\* with no forced clear since, is just-pressed until the next tick, also
\* after its key-up has arrived and it is no longer held; the next tick's
\* jump and interact queries answer true for it.
C36_TapKeepsEdge ==
    /\ run.edges \subseteq input.justPressed
    /\ run.tapped \cap input.keys = {}
    /\ [][TapTick => /\ (" " \in run.tapped => run'.asked.jump)
                      /\ ("e" \in run.tapped => run'.asked.interact)]_vars

\* After a tick, the jump key has gone down and up again: it is not held
\* and its edge waits for the next tick.
C36_Witness ==
    /\ run.kind = "tap"
    /\ run.ticks >= 1
    /\ " " \in run.tapped
    /\ " " \notin input.keys
    /\ isJumpPressed(input)

(***************************************************************************)
(* Properties of the CollisionSystem (checked under SpecCollision).        *)
(***************************************************************************)
\* The span [x - halfWidth, x + halfWidth] meets the interior of the zone.
InsideZone(x, halfWidth, zone) ==
    x - halfWidth < zone.x + zone.width /\ x + halfWidth > zone.x

\* C9: the x constrainPlayer returns leaves the body's span clear of the
\* interior of every solid zone.
C9_ClearOfEveryZone ==
    probe.called =>
        \A i \in 1..Len(collision.solidZones) :
            ~InsideZone(probe.out.x, probe.body.width \div 2, collision.solidZones[i])

\* The distances of a push, seen from the body before it.
TiedPush(p, halfWidth) ==
    (p.from + halfWidth) - p.zone.x = (p.zone.x + p.zone.width) - (p.from - halfWidth)

LeftNearer(p, halfWidth) ==
    (p.from + halfWidth) - p.zone.x < (p.zone.x + p.zone.width) - (p.from - halfWidth)

\* C10 as claimed: every push goes to the nearer edge of its zone, and to
\* the left edge when both are equally near.
C10_TieGoesLeft ==
    probe.called =>
        \A i \in 1..Len(probe.out.pushes) :
            LET p  == probe.out.pushes[i]
                hw == probe.body.width \div 2
            IN  p.to = IF LeftNearer(p, hw) \/ TiedPush(p, hw)
                       THEN p.zone.x - hw
                       ELSE p.zone.x + p.zone.width + hw

\* C10 as amended: every push goes to the nearer edge of its zone, and to
\* the right edge when both are equally near.
C10_TieGoesRight ==
    probe.called =>
        \A i \in 1..Len(probe.out.pushes) :
            LET p  == probe.out.pushes[i]
                hw == probe.body.width \div 2
            IN  p.to = IF LeftNearer(p, hw)
                       THEN p.zone.x - hw
                       ELSE p.zone.x + p.zone.width + hw

\* A body centred on a zone is pushed out of it.
C10_Witness ==
    /\ probe.called
    /\ Len(probe.out.pushes) = 1
    /\ TiedPush(probe.out.pushes[1], probe.body.width \div 2)
    /\ probe.out.x = probe.out.pushes[1].zone.x + probe.out.pushes[1].zone.width
                        + probe.body.width \div 2

(***************************************************************************)
(* Properties of the interactive zones (checked under SpecZones).          *)
(***************************************************************************)
Asked == "asked" \in DOMAIN probe

\* The places of the zones whose centre is strictly nearer than range.
InRange == {i \in 1..Len(collision.interactiveZones) :
               CenterDist2(probe.body.x, collision.interactiveZones[i]) < 2 * probe.range}

\* C22: findNearbyInteractive returns null exactly when no zone centre is
\* strictly nearer than range to body.x; otherwise it returns a zone in
\* range whose centre distance is the least over all zones, the one added
\* first among the zones at that distance.
C22_NearestFirstAdded ==
    Asked =>
        LET zones == collision.interactiveZones
        IN  /\ (probe.out = 0) <=> (InRange = {})
            /\ probe.out # 0 =>
                  /\ probe.out \in InRange
                  /\ \A j \in 1..Len(zones) :
                        /\ CenterDist2(probe.body.x, zones[probe.out])
                              <= CenterDist2(probe.body.x, zones[j])
                        /\ CenterDist2(probe.body.x, zones[j])
                              = CenterDist2(probe.body.x, zones[probe.out]) => probe.out <= j

\* A zone added first is farther, and the two zones added after it are at
\* the same distance on either side of the body: the second one is returned.
C22_Witness ==
    /\ Asked
    /\ Len(collision.interactiveZones) = 3
    /\ probe.out = 2
    /\ CenterDist2(probe.body.x, collision.interactiveZones[3])
          = CenterDist2(probe.body.x, collision.interactiveZones[2])
    /\ collision.interactiveZones[3].x # collision.interactiveZones[2].x
    /\ 1 \in InRange

\* No zone is in range although there are zones: null is returned.
C22_WitnessNull ==
    /\ Asked
    /\ Len(collision.interactiveZones) > 0
    /\ probe.out = 0

(***************************************************************************)
(* Properties of gameUpdate (checked under SpecGame).                      *)
(***************************************************************************)
\* C8: in every tick, on every path through gameUpdate (modal open,
\* dialogue open, normal play), endFrame() is called exactly once, and after
\* every input query of that tick: the list of calls a tick makes on the
\* InputManager ends with endFrame and holds no other endFrame.
C8_EndFrameOnceAfterQueries ==
    calls.path # "none" =>
        /\ Len(calls.log) > 0
        /\ calls.log[Len(calls.log)] = "endFrame"
        /\ \A i \in 1..(Len(calls.log) - 1) : calls.log[i] # "endFrame"

\* A tick of normal play next to the building asked for the interact edge
\* after the player's queries, opened the dialogue and ended the frame.
C8_Witness ==
    /\ calls.path = "play"
    /\ calls.log = <<"isThemeTogglePressed">> \o PlayerQueries \o <<"isInteractPressed", "endFrame">>
    /\ game.dialogue.isOpen
    /\ game.player.x > Px(PlayerStart)

\* A tick with the dialogue open asked both of its predicates.
C8_WitnessDialogue ==
    /\ calls.path = "dialogue"
    /\ calls.log = <<"isClosePressed", "isInteractPressed", "endFrame">>

\* A tick with the modal open closed it on the close edge.
C8_WitnessModal ==
    /\ calls.path = "modal"
    /\ calls.log = <<"isClosePressed", "endFrame">>
    /\ ~game.modal.isOpen

(***************************************************************************)
(* The player on its own, in a world a few steps wide: every tick runs     *)
(* Player.update with whatever keys are held and whatever jump edge is     *)
(* set, solid zones are added to the resolver, and the window is resized   *)
(* between ticks.  The step of a behaviour is constant and is any of       *)
(* PlayDts.  run records what the latest step was and what update() read.  *)
(***************************************************************************)
PlayWorldWidth == 60     \* WORLD_CONFIG.width of the narrow world

PlayStart == 30          \* WORLD_CONFIG.playerStart of the narrow world

GroundFractionTenths == 8    \* WORLD_CONFIG.groundFraction, in tenths

PlayZoneX == 20          \* left edge of the solid zone that is added

PlayZoneWidth == 30 

ResizedHeight == 375     \* window.innerHeight after a resize that changes it

PlayKeys == {"d", "shift"}

JumpKeys == {" "}

PlayDts == {0, Sec(1, 30), Sec(1, 10)}

CanvasHeights == {CanvasHeight, ResizedHeight}

\* canvasH * WORLD_CONFIG.groundFraction
GroundLevel(canvasH) == Px(canvasH * GroundFractionTenths) \div 10

\* The InputManager with these keys held and these edges set.
Held(K, J) == [InputManager_new(FALSE) EXCEPT !.keys = K \cup J, !.justPressed = J]

Ran(kind, dt, I) ==
    [kind |-> kind, dt |-> dt, jump |-> isJumpPressed(I), sprint |-> isSprinting(I),
     moving |-> isMovingLeft(I) \/ isMovingRight(I)]

InitPlayer ==
    /\ LoopInit
    /\ InputInit(FALSE)
    /\ collision = setupCollisions(CollisionSystem_new(Px(PlayWorldWidth), GroundLevel(CanvasHeight)),
                                    GroundLevel(CanvasHeight))
    /\ probe = NoProbe
    /\ game = [Game_new EXCEPT
                   !.player = AudioCallbacks(Player_new(Px(PlayStart), GroundLevel(CanvasHeight)))]
    /\ calls = NoCalls
    /\ camera = Camera_new(CanvasWidth, CanvasHeight, PlayWorldWidth)
    /\ \E dt \in PlayDts : run = Ran("none", dt, Held({}, {}))

\* player.update(input, collision, dt)
PlayerTick ==
    /\ \E K \in SUBSET PlayKeys, J \in SUBSET JumpKeys :
          /\ game' = [game EXCEPT !.player = Player_update(@, Held(K, J), collision, run.dt)]
          /\ run' = Ran("update", run.dt, Held(K, J))
    /\ UNCHANGED <<loopVars, inputVars, collisionVars, calls, camera>>

\* collision.addSolidZone(x, y, width, height)
PlaceSolidZone ==
    /\ Len(collision.solidZones) < MaxZones
    /\ collision' = addSolidZone(collision, Px(PlayZoneX), 0, Px(PlayZoneWidth), Px(48), "null")
    /\ run' = Ran("zone", run.dt, Held({}, {}))
    /\ UNCHANGED <<loopVars, inputVars, probe, gameVars, camera>>

\* The 'resize' listener of main.js.  world.resize sets the world's groundY
\* to the new ground level before world.setupCollisions(collision) reads it.
WindowResize ==
    /\ \E canvasH \in CanvasHeights :
          /\ camera' = Camera_resize(camera, CanvasWidth, canvasH)
          /\ collision' = setupCollisions(setGroundY(collision, GroundLevel(canvasH)),
                                           GroundLevel(canvasH))
          /\ game' = [game EXCEPT !.player.groundY = GroundLevel(canvasH),
                                  !.player.y = GroundLevel(canvasH)]
    /\ run' = Ran("resize", run.dt, Held({}, {}))
    /\ UNCHANGED <<loopVars, inputVars, probe, calls>>

PlayerNext ==
    \/ PlayerTick
    \/ PlaceSolidZone
    \/ WindowResize

SpecPlayer == InitPlayer /\ [][PlayerNext]_vars

(***************************************************************************)
(* The game with the player next to the building, where the interact key   *)
(* opens the dialogue whether the body is on the ground or in the air.     *)
(* Ticks come with any of FallDts, the window's height changes between     *)
(* ticks, and the dialogue is opened and closed.  run.beat changes in the   *)
(* ticks with dt > 0 in which no overlay is open, and in no other step.    *)
(* Under SpecFallFair the scheduler keeps running such ticks: if again and *)
(* again no overlay is open, then again and again one of them runs.        *)
(***************************************************************************)
FallKeys == {" ", "e"}

FallDts == {0, DtCapMs}     \* ms

Overlay == game.modal.isOpen \/ game.dialogue.isOpen

InitFall ==
    /\ LoopInit
    /\ InputInit(FALSE)
    /\ collision = setupCollisions(CollisionSystem_new(Px(GameWorldWidth), GroundLevel(CanvasHeight)),
                                    GroundLevel(CanvasHeight))
    /\ probe = NoProbe
    /\ game = [Game_new EXCEPT
                   !.player = AudioCallbacks(Player_new(Px(FrameStart), GroundLevel(CanvasHeight)))]
    /\ calls = NoCalls
    /\ camera = Camera_new(GameWorldWidth, CanvasHeight, GameWorldWidth)
    /\ run = [kind |-> "tick", beat |-> 0]

FallKeyDown ==
    /\ \E eKey \in FallKeys : input' = onKeyDown(input, eKey)
    /\ UNCHANGED <<physDown, press, quiet, gameVars, loopVars, collisionVars, playVars>>

FallKeyUp ==
    /\ \E eKey \in FallKeys : input' = onKeyUp(input, eKey)
    /\ UNCHANGED <<physDown, press, quiet, gameVars, loopVars, collisionVars, playVars>>

\* The 'resize' listener of main.js when the window's height changes and its
\* width does not.
FallResize ==
    /\ \E canvasH \in CanvasHeights :
          /\ camera' = Camera_resize(camera, GameWorldWidth, canvasH)
          /\ collision' = setupCollisions(setGroundY(collision, GroundLevel(canvasH)),
                                           GroundLevel(canvasH))
          /\ game' = [game EXCEPT !.player.groundY = GroundLevel(canvasH),
                                  !.player.y = GroundLevel(canvasH)]
    /\ UNCHANGED <<loopVars, inputVars, probe, calls, run>>

\* gameUpdate(dt)
FallTick(dt) ==
    \E rx \in Randoms(camera), ry \in Randoms(camera) :
        LET path == IF game.modal.isOpen THEN "modal"
                    ELSE IF game.dialogue.isOpen THEN "dialogue" ELSE "play"
            G == gameUpdate([game |-> game, input |-> input, camera |-> camera,
                             log |-> <<>>], collision, dt, rx, ry)
        IN  /\ game' = G.game
            /\ input' = G.input
            /\ camera' = G.camera
            /\ calls' = [path |-> path, log |-> G.log]
            /\ run' = [run EXCEPT !.beat = IF path = "play" /\ dt > 0 THEN 1 - @ ELSE @]
            /\ UNCHANGED <<physDown, press, quiet, loopVars, collisionVars>>

FallFrame == \E dt \in FallDts : FallTick(dt)

\* The steps of FallFrame with dt > 0 in which neither overlay is open.
PlayFrame == ~Overlay /\ run' = [run EXCEPT !.beat = 1 - @]

FallNext ==
    \/ FallKeyDown
    \/ FallKeyUp
    \/ ClickDialogueClose
    \/ FallResize
    \/ FallFrame

SpecFall == InitFall /\ [][FallNext]_vars

SpecFallFair == SpecFall /\ SF_run(PlayFrame)

(***************************************************************************)
(* The game with the player next to the building and both overlays: the    *)
(* interact key opens the dialogue, its button opens the modal, and the    *)
(* overlays are closed by their close buttons or by a tick.  run.masked    *)
(* holds the keys whose latest press began while an overlay was open.      *)
(***************************************************************************)
InitOverlay ==
    /\ LoopInit
    /\ InputInit(FALSE)
    /\ collision = setupCollisions(CollisionSystem_new(Px(GameWorldWidth), GroundLevel(CanvasHeight)),
                                    GroundLevel(CanvasHeight))
    /\ probe = NoProbe
    /\ game = [Game_new EXCEPT
                   !.player = AudioCallbacks(Player_new(Px(FrameStart), GroundLevel(CanvasHeight)))]
    /\ calls = NoCalls
    /\ camera = Camera_new(GameWorldWidth, CanvasHeight, GameWorldWidth)
    /\ run = [kind |-> "overlay", masked |-> {}]

OverlayKeyDown ==
    /\ \E eKey \in FallKeys :
          /\ input' = onKeyDown(input, eKey)
          /\ run' = [run EXCEPT !.masked = IF toLowerCase(eKey) \in input.keys THEN @
                                           ELSE IF Overlay THEN @ \cup {toLowerCase(eKey)}
                                           ELSE @ \ {toLowerCase(eKey)}]
    /\ UNCHANGED <<physDown, press, quiet, gameVars, loopVars, collisionVars, camera>>

OverlayKeyUp ==
    /\ \E eKey \in FallKeys : input' = onKeyUp(input, eKey)
    /\ UNCHANGED <<physDown, press, quiet, gameVars, loopVars, collisionVars, playVars>>

\* gameUpdate(dt)
OverlayFrame ==
    /\ \E dt \in GameDts, rx \in Randoms(camera), ry \in Randoms(camera) :
          LET path == IF game.modal.isOpen THEN "modal"
                      ELSE IF game.dialogue.isOpen THEN "dialogue" ELSE "play"
              G == gameUpdate([game |-> game, input |-> input, camera |-> camera,
                               log |-> <<>>], collision, dt, rx, ry)
          IN  /\ game' = G.game
              /\ input' = G.input
              /\ camera' = G.camera
              /\ calls' = [path |-> path, log |-> G.log]
    /\ UNCHANGED <<physDown, press, quiet, loopVars, collisionVars, run>>

OverlayNext ==
    \/ OverlayKeyDown
    \/ OverlayKeyUp
    \/ TypewriterDone
    \/ ClickEnterProject
    \/ ClickDialogueClose
    \/ ClickModalClose
    \/ OverlayFrame

SpecOverlay == InitOverlay /\ [][OverlayNext]_vars

(***************************************************************************)
(* The same page in a window whose width changes between ticks, to widths  *)
(* that are no wider than the world; the interact key opens the dialogue   *)
(* of the building.  run holds what the latest handler was: a tick         *)
(* (gameUpdate, then gameRender) or the 'resize' listener.                 *)
(***************************************************************************)
WindowWidths == {CanvasWidth, GameWorldWidth - 10}

\* The 'resize' listener of main.js when the window's width changes and its
\* height does not.
WidthResize ==
    /\ \E canvasW \in WindowWidths :
          /\ camera' = Camera_resize(camera, canvasW, CanvasHeight)
          /\ collision' = setupCollisions(setGroundY(collision, GroundLevel(CanvasHeight)),
                                           GroundLevel(CanvasHeight))
          /\ game' = [game EXCEPT !.player.groundY = GroundLevel(CanvasHeight),
                                  !.player.y = GroundLevel(CanvasHeight)]
    /\ run' = [kind |-> "resize"]
    /\ UNCHANGED <<loopVars, inputVars, probe, calls>>

ResizeNext ==
    \/ FallKeyDown
    \/ FallKeyUp
    \/ ClickDialogueClose
    \/ GameFrame
    \/ WidthResize

SpecResize == InitFrame /\ [][ResizeNext]_vars

(***************************************************************************)
(* The Player steered both ways: update() is called with any of the        *)
(* direction, sprint and jump keys held.                                   *)
(***************************************************************************)
SteerKeys == {"a", "d", "shift"}

Steered(dt, I) ==
    [kind |-> "steer", dt |-> dt, left |-> isMovingLeft(I), right |-> isMovingRight(I),
     sprint |-> isSprinting(I)]

\* player.update(input, collision, dt)
SteerTick ==
    /\ \E K \in SUBSET SteerKeys, J \in SUBSET JumpKeys :
          /\ game' = [game EXCEPT !.player = Player_update(@, Held(K, J), collision, run.dt)]
          /\ run' = Steered(run.dt, Held(K, J))
    /\ UNCHANGED <<loopVars, inputVars, collisionVars, calls, camera>>

SteerNext == SteerTick

(***************************************************************************)
(* The Player with and without its audio callbacks: the body of the game   *)
(* and a body as the constructor leaves it, onJump, onLand and onStep      *)
(* null, are updated with the same input and dt.                           *)
(***************************************************************************)
InitSilent ==
    /\ LoopInit
    /\ InputInit(FALSE)
    /\ collision = setupCollisions(CollisionSystem_new(Px(PlayWorldWidth), GroundLevel(CanvasHeight)),
                                    GroundLevel(CanvasHeight))
    /\ probe = NoProbe
    /\ game = [Game_new EXCEPT
                   !.player = AudioCallbacks(Player_new(Px(PlayStart), GroundLevel(CanvasHeight)))]
    /\ calls = NoCalls
    /\ camera = Camera_new(CanvasWidth, CanvasHeight, PlayWorldWidth)
    /\ \E dt \in PlayDts :
          run = [kind |-> "silent", dt |-> dt,
                 mute |-> Player_new(Px(PlayStart), GroundLevel(CanvasHeight))]

\* player.update(input, collision, dt), for either body
SilentTick ==
    /\ \E K \in SUBSET PlayKeys, J \in SUBSET JumpKeys :
          /\ game' = [game EXCEPT !.player = Player_update(@, Held(K, J), collision, run.dt)]
          /\ run' = [run EXCEPT !.mute = Player_update(@, Held(K, J), collision, run.dt)]
    /\ UNCHANGED <<loopVars, inputVars, collisionVars, calls, camera>>

SilentNext == SilentTick

SpecSilent == InitSilent /\ [][SilentNext]_vars

SpecSteer == InitPlayer /\ [][SteerNext]_vars

(***************************************************************************)
(* Runs at a constant step: the body walks or sprints without a pause, in  *)
(* either direction, or jumps from rest and is stepped with no key held    *)
(* until it is back on the ground.  run counts the ticks of the run and    *)
(* the footsteps emitted in it.                                            *)
(***************************************************************************)
MaxWalkTicks == 12       \* ticks of one walk

PaceDts == {Sec(1, 240), Sec(1, 30), Sec(1, 10)}

WalkKeys == {{"a"}, {"d"}}

SprintKeys(sprint) == IF sprint THEN {"shift"} ELSE {}

Pace(kind, dt, sprint, n, steps) ==
    [kind |-> kind, dt |-> dt, sprint |-> sprint, ticks |-> n, steps |-> steps]

InitPace ==
    /\ LoopInit
    /\ InputInit(FALSE)
    /\ collision = setupCollisions(CollisionSystem_new(Px(GameWorldWidth), Px(GameGroundY)),
                                    Px(GameGroundY))
    /\ probe = NoProbe
    /\ GameInit
    /\ camera = Camera_new(CanvasWidth, CanvasHeight, GameWorldWidth)
    /\ \E dt \in PaceDts, sprint \in BOOLEAN : run = Pace("none", dt, sprint, 0, 0)

\* player.update(input, collision, dt) with a direction held
WalkTick ==
    /\ run.kind \in {"none", "walk"}
    /\ run.ticks < MaxWalkTicks
    /\ \E K \in WalkKeys :
          /\ game' = [game EXCEPT !.player =
                          Player_update(@, Held(K \cup SprintKeys(run.sprint), {}), collision, run.dt)]
          /\ run' = Pace("walk", run.dt, run.sprint, run.ticks + 1,
                         run.steps + Cardinality({i \in 1..Len(game'.player.emitted) :
                                                      game'.player.emitted[i].name = "onStep"}))
    /\ UNCHANGED <<loopVars, inputVars, collisionVars, calls, camera>>

\* player.update(input, collision, dt) with the jump edge set, at rest
JumpStart ==
    /\ run.kind = "none"
    /\ game' = [game EXCEPT !.player = Player_update(@, Held({}, JumpKeys), collision, run.dt)]
    /\ run' = Pace("jump", run.dt, run.sprint, 1, 0)
    /\ UNCHANGED <<loopVars, inputVars, collisionVars, calls, camera>>

\* player.update(input, collision, dt) with no key held, in the air
AirTick ==
    /\ run.kind = "jump"
    /\ ~game.player.isGrounded
    /\ game' = [game EXCEPT !.player = Player_update(@, Held({}, {}), collision, run.dt)]
    /\ run' = Pace("jump", run.dt, run.sprint, run.ticks + 1, 0)
    /\ UNCHANGED <<loopVars, inputVars, collisionVars, calls, camera>>

PaceNext ==
    \/ WalkTick
    \/ JumpStart
    \/ AirTick

SpecPace == InitPace /\ [][PaceNext]_vars

(***************************************************************************)
(* Properties of a frame of the game (checked under SpecFrame).            *)
(***************************************************************************)
HalfWidth(P) == P.width \div 2

\* The body after the integration steps of update(), before constrainPlayer.
IntegratedBody(P, I, dt) ==
    DecaySquash(ApplyGravity(Jump(Horizontal([P EXCEPT !.emitted = <<>>], I, dt), I), dt))

\* The entries of the context's list that were drawn for the layer.
DrawnFor(ctx, layer) == {i \in 1..Len(ctx.drawn) : ctx.drawn[i].layer = layer}

\* C21: in a tick of normal play the body is integrated with the input as
\* it stands when the tick starts, constrainPlayer is applied to the
\* integrated position, the camera follows the constrained position of
\* this tick, and the render callback that follows draws the player at
\* that position under that camera.
C21_TickOrder ==
    [][(GameFrame /\ calls'.path = "play") =>
          /\ game'.player.x =
                 constrainPlayer(collision, IntegratedBody(game.player, input, Ms(run'.dt))).x
          /\ camera'.x = Follow(camera, Target(game'.player)).x
          /\ \E i \in DrawnFor(run'.ctx, "player") :
                 run'.ctx.drawn[i].tx =
                     FracAdd(FracAdd(Whole(-Round(camera'.x)), camera'.shakeOffsetX),
                             Target(game'.player))]_vars

\* A tick has moved the body against the right end of the world, where
\* constrainPlayer held it back, and the camera has moved after it.
C21_Witness ==
    /\ run.kind = "frame"
    /\ calls.path = "play"
    /\ game.player.x = Px(GameWorldWidth) - HalfWidth(game.player)
    /\ game.player.x > Px(FrameStart)
    /\ FracLess(Whole(0), camera.x)

\* The translation applyTransform adds for the camera as it is.
CameraShift ==
    [tx |-> FracAdd(Whole(-Round(camera.x)), camera.shakeOffsetX),
     ty |-> FracAdd(Whole(-Round(Whole(camera.y))), camera.shakeOffsetY)]

\* C29: gameRender leaves the drawing context at the save/restore depth
\* and the translation it found, every draw outside an applyTransform /
\* resetTransform pair is made at depth 0 (or one save deep, for a
\* parallax layer) with no camera translation and no shake offset in it,
\* and every draw inside a pair is made under the translation of exactly
\* one applyTransform.
C29_ScopedTransform ==
    run.kind = "frame" =>
        /\ run.ctx.saved = <<>>
        /\ run.ctx.tx = Whole(0) /\ run.ctx.ty = Whole(0)
        /\ \A i \in 1..Len(run.ctx.drawn) :
              LET d == run.ctx.drawn[i]
              IN  /\ d.layer \in {"clear", "sky"} =>
                        d.depth = 0 /\ d.tx = Whole(0) /\ d.ty = Whole(0)
                  /\ d.layer = "parallax" =>
                        /\ d.depth = 1
                        /\ d.ty = Whole(0)
                        /\ \E j \in 1..Len(ScrollFactors) :
                              d.tx = FracNeg(Frac(camera.x.n * ScrollFactors[j],
                                                  camera.x.d * 100))
                  /\ d.layer \in {"ground", "signs", "foreground", "particles"} =>
                        d.depth = 1 /\ d.tx = CameraShift.tx /\ d.ty = CameraShift.ty
                  /\ d.layer \in {"building", "npc", "skill", "speech"} =>
                        d.depth = 2 /\ d.tx = CameraShift.tx /\ d.ty = CameraShift.ty
                  /\ d.layer = "player" =>
                        /\ d.depth = 2
                        /\ d.tx = FracAdd(CameraShift.tx, InPx(game.player.x))
                        /\ d.ty = FracAdd(CameraShift.ty, InPx(game.player.y))

\* A frame drawn while the camera is away from the left end and shaking:
\* the skill icon is in view and drawn, the building is not.
C29_Witness ==
    /\ run.kind = "frame"
    /\ FracLess(Whole(0), camera.x)
    /\ camera.shakeOffsetX # Whole(0)
    /\ camera.shakeOffsetY # Whole(0)
    /\ \E i \in DrawnFor(run.ctx, "skill") : run.ctx.drawn[i].tx = CameraShift.tx
    /\ DrawnFor(run.ctx, "building") = {}

(***************************************************************************)
(* Properties of the Player (checked under SpecPlayer).                    *)
(***************************************************************************)
\* How many times the notification was emitted by the latest update.
Emitted(P, name) == Cardinality({i \in 1..Len(P.emitted) : P.emitted[i].name = name})

\* C11: after every Player.update, whatever the input, the step and the
\* solid zones, the body's x lies in [halfWidth, worldWidth - halfWidth].
C11_BodyInWorld ==
    run.kind = "update" =>
        /\ game.player.x >= HalfWidth(game.player)
        /\ game.player.x <= collision.worldWidth - HalfWidth(game.player)

\* C12: a body that is Grounded after an update or a resize has its y at
\* the resolver's ground level and at its own groundY, and constrainPlayer
\* returns the resolver's ground level whatever y the body has.
C12_GroundedAtGroundLevel ==
    /\ (run.kind \in {"update", "resize"} /\ game.player.isGrounded) =>
           /\ game.player.y = collision.groundY
           /\ game.player.y = game.player.groundY
    /\ \A y \in {0, game.player.y, collision.groundY + Px(1)} :
           constrainPlayer(collision, [game.player EXCEPT !.y = y]).y = collision.groundY

\* A resize has changed the ground level under a Grounded body.
C12_Witness ==
    /\ run.kind = "resize"
    /\ game.player.isGrounded
    /\ game.player.y = GroundLevel(ResizedHeight)
    /\ collision.groundY = GroundLevel(ResizedHeight)

\* C13: while the body is Airborne its y is changed by Player.update only;
\* no other step, a resize between ticks in particular, changes it.
C13_AirborneYOnlyByUpdate ==
    [][(~game.player.isGrounded /\ game'.player.y # game.player.y) => run'.kind = "update"]_vars

\* velocityY after this step's gravity, and y after it.
NextVelocityY(P, vy, dt) == vy + (P.gravity * dt) \div Sec(1, 1)

NextY(P, vy, dt) == P.y + NextVelocityY(P, vy, dt) * dt

\* What a tick that ends Airborne has made of velocityY and y.
Integrated(P, Q, vy, dt) ==
    /\ ~Q.isGrounded
    /\ Q.velocityY = NextVelocityY(P, vy, dt)
    /\ Q.y = NextY(P, vy, dt)
    /\ Emitted(Q, "onLand") = 0

\* What a tick that lands has made of the body.
Landed(Q) ==
    /\ Q.isGrounded
    /\ ~Q.isJumping
    /\ Q.y = collision.groundY
    /\ Q.velocityY = 0
    /\ Q.jumpSquash.tenths > 0
    /\ Emitted(Q, "onLand") = 1

JumpTick == run'.kind = "update" /\ run'.jump /\ game.player.isGrounded

\* C14: the body starts Grounded, and a tick that finds it Grounded with
\* the jump edge set makes it Airborne with velocityY = jumpForce,
\* isJumping and a negative squash, and emits onJump exactly once: the
\* tick ends Airborne, jumpForce advanced by that tick's gravity, unless
\* the same tick's integration already brings the body back to the ground.
C14_JumpTransition ==
    /\ game.player.isGrounded
    /\ [][JumpTick =>
            /\ Emitted(game'.player, "onJump") = 1
            /\ \/ /\ Integrated(game.player, game'.player, game.player.jumpForce, run'.dt)
                   /\ game'.player.isJumping
                   /\ game'.player.jumpSquash.tenths < 0
               \/ /\ NextY(game.player, game.player.jumpForce, run'.dt) >= game.player.groundY
                   /\ Landed(game'.player)]_vars

\* A jump tick has left the body in the air.
C14_Witness ==
    /\ run.kind = "update"
    /\ run.jump
    /\ ~game.player.isGrounded
    /\ game.player.isJumping
    /\ Emitted(game.player, "onJump") = 1
    /\ game.player.velocityY = game.player.jumpForce + (game.player.gravity * run.dt) \div Sec(1, 1)

AirborneTick == run'.kind = "update" /\ ~game.player.isGrounded

\* C15: a tick that finds the body Airborne first adds gravity * dt to
\* velocityY and then adds the new velocityY * dt to y; if that y is at or
\* below ground level the body lands: y at ground level, velocityY 0,
\* Grounded, a positive squash and onLand exactly once.
C15_SemiImplicitEuler ==
    [][AirborneTick =>
          IF NextY(game.player, game.player.velocityY, run'.dt) >= game.player.groundY
          THEN Landed(game'.player)
          ELSE Integrated(game.player, game'.player, game.player.velocityY, run'.dt)]_vars

\* A tick has landed the body.
C15_Witness ==
    /\ run.kind = "update"
    /\ run.dt > 0
    /\ game.player.isGrounded
    /\ Emitted(game.player, "onLand") = 1
    /\ Emitted(game.player, "onJump") = 0
    /\ game.player.jumpSquash.tenths > 0

\* The jump of the run is over: the body is back on the ground.
JumpOver == run.kind = "jump" /\ game.player.isGrounded

\* C16 (checked under SpecPace): a jump from rest stepped with a constant
\* dt of 1/30 s or 1/240 s has the body back at ground level after a time
\* that is less than one dt away from 2 * 380 / 900 s.
C16_JumpTime ==
    (JumpOver /\ run.dt \in {Sec(1, 30), Sec(1, 240)}) =>
        /\ game.player.y = game.player.groundY
        /\ Abs(900 * (run.ticks * run.dt) - 2 * 380 * Sec(1, 1)) < 900 * run.dt

\* The jump stepped at 1/240 s has landed.
C16_Witness ==
    /\ JumpOver
    /\ run.dt = Sec(1, 240)
    /\ Emitted(game.player, "onLand") = 1

\* C17 (checked under SpecPace): in a run of ticks at a constant dt in
\* which the body is Grounded and moving all the time, the number of
\* onStep notifications is floor(duration / interval), the interval being
\* 0.3 s when walking and 0.18 s when sprinting.
C17_StepCount ==
    run.kind = "walk" =>
        run.steps = (run.ticks * run.dt) \div (IF run.sprint THEN Sec(18, 100) ELSE Sec(3, 10))

\* C18: the footstep timer grows only in a tick that ends Grounded and
\* moving, it is zero after every tick that ends not moving or Airborne,
\* and every onStep carries the sprint flag the tick read.
C18_StepTimer ==
    [][run'.kind = "update" =>
          /\ game'.player.stepTimer > game.player.stepTimer =>
                 game'.player.isGrounded /\ run'.moving
          /\ ~(game'.player.isGrounded /\ run'.moving) => game'.player.stepTimer = 0
          /\ \A i \in 1..Len(game'.player.emitted) :
                 game'.player.emitted[i].name = "onStep" =>
                     game'.player.emitted[i].args = <<run'.sprint>>]_vars

\* A sprinting tick has emitted a footstep.
C18_Witness ==
    /\ run.kind = "update"
    /\ run.sprint
    /\ Emitted(game.player, "onStep") = 1
    /\ game.player.stepTimer = 0

\* C24: after every update velocityX is 0 when no direction is held, the
\* speed (times sprintMultiplier with sprint) to the right when right is
\* held and to the left when only left is held, whatever it was before.
C24_VelocitySet ==
    [][SteerTick =>
          LET spd == IF run'.sprint THEN (game.player.speed * game.player.sprintMultiplier) \div 10
                     ELSE game.player.speed
          IN  game'.player.velocityX =
                 IF run'.right THEN spd ELSE IF run'.left THEN -spd ELSE 0]_vars

\* The body is to the right of its start and an update with only left held
\* has set the walking speed to the left.
C24_Witness ==
    /\ run.kind = "steer"
    /\ run.left /\ ~run.right /\ ~run.sprint
    /\ game.player.velocityX = -game.player.speed
    /\ game.player.x > Px(PlayStart)

\* The body was moving and an update with no direction held has stopped it.
C24_WitnessStop ==
    /\ run.kind = "steer"
    /\ ~run.left /\ ~run.right
    /\ game.player.velocityX = 0
    /\ game.player.x # Px(PlayStart)

\* The update made no jump and no landing assignment.
Undisturbed(Q) == Emitted(Q, "onJump") = 0 /\ Emitted(Q, "onLand") = 0

\* 0.3 or -0.3 times a power of 0.85 that is at least the first.
Bounded(s) == s.tenths \in {-3, 0, 3} /\ (s.tenths # 0 => s.decays >= 1)

\* The magnitude of t is below that of s (multiplications beyond MaxDecays
\* are not told apart and count as a decrease).
Shrunk(s, t) ==
    /\ s.tenths # 0
    /\ t.tenths = s.tenths
    /\ t.decays > s.decays \/ s.decays = MaxDecays

\* C28: at the end of every update the magnitude of jumpSquash is at most
\* 0.3 * 0.85, and in every update without a jump or landing it is strictly
\* below its magnitude before the update.
C28_SquashShrinks ==
    [][run'.kind = "update" =>
          /\ Bounded(game'.player.jumpSquash)
          /\ Undisturbed(game'.player) =>
                 Shrunk(game.player.jumpSquash, game'.player.jumpSquash)]_vars

\* C28 (amended): every update multiplies jumpSquash by 0.85 once, after
\* the jump or landing assignment if there is one: it ends at 0.3 * 0.85
\* after a landing, at -0.3 * 0.85 after a jump without landing, and
\* otherwise at 0.85 times its value before, which is 0 when that was 0.
C28_SquashDecays ==
    [][run'.kind = "update" =>
          LET s == game.player.jumpSquash
              t == game'.player.jumpSquash
          IN  /\ Bounded(t)
              /\ Emitted(game'.player, "onLand") = 1 => t = [tenths |-> 3, decays |-> 1]
              /\ Emitted(game'.player, "onJump") = 1 /\ Emitted(game'.player, "onLand") = 0
                    => t = [tenths |-> -3, decays |-> 1]
              /\ Undisturbed(game'.player) =>
                    IF s.tenths = 0 THEN t = s
                    ELSE t = [tenths |-> s.tenths, decays |-> Min(s.decays + 1, MaxDecays)]]_vars

\* An airborne update after the jump has multiplied the stretch again.
C28_Witness ==
    /\ run.kind = "update"
    /\ ~game.player.isGrounded
    /\ Undisturbed(game.player)
    /\ game.player.jumpSquash = [tenths |-> -3, decays |-> 2]

\* A grounded update after the landing has multiplied the squash again.
C28_WitnessGrounded ==
    /\ run.kind = "update"
    /\ game.player.isGrounded
    /\ Undisturbed(game.player)
    /\ game.player.jumpSquash = [tenths |-> 3, decays |-> 2]

IsJumpOrLand(e) == e.name \in {"onJump", "onLand"}

\* The onJump and onLand calls of the latest update, in the order made.
Notes(Q) ==
    LET s == SelectSeq(Q.emitted, IsJumpOrLand)
    IN  [i \in 1..Len(s) |-> s[i].name]

\* C32: the body starts Grounded with nothing notified; an update that
\* finds it Grounded notifies nothing, onJump, or onJump and then onLand,
\* one that finds it Airborne notifies nothing or onLand, and the body is
\* Grounded afterwards exactly when the last notification so far is onLand
\* (or none was made); no other event changes the grounded flag.  So
\* onJump and onLand alternate, starting with onJump.  isJumping equals
\* not isGrounded after every update and every resize.
C32_JumpLandAlternate ==
    /\ game.player.isGrounded /\ ~game.player.isJumping
    /\ [][/\ game'.player.isJumping = ~game'.player.isGrounded
          /\ run'.kind = "update" =>
                /\ Notes(game'.player) \in
                      (IF game.player.isGrounded
                       THEN {<<>>, <<"onJump">>, <<"onJump", "onLand">>}
                       ELSE {<<>>, <<"onLand">>})
                /\ game'.player.isGrounded =
                      (IF Notes(game'.player) = <<>> THEN game.player.isGrounded
                       ELSE Notes(game'.player)[Len(Notes(game'.player))] = "onLand")
          /\ run'.kind # "update" => game'.player.isGrounded = game.player.isGrounded]_vars

\* The window was resized while the body was in the air, and a later
\* update has landed it at the new ground level.
C32_Witness ==
    /\ run.kind = "update"
    /\ Notes(game.player) = <<"onLand">>
    /\ game.player.isGrounded
    /\ game.player.y = GroundLevel(ResizedHeight)

\* C33: a tick in which the jump transition fires emits no onLand and ends
\* with the body Airborne and strictly above ground level.
C33_JumpLeavesGround ==
    [][(run'.kind = "update" /\ Emitted(game'.player, "onJump") = 1) =>
          /\ Emitted(game'.player, "onLand") = 0
          /\ ~game'.player.isGrounded
          /\ game'.player.y < game'.player.groundY]_vars

(***************************************************************************)
(* Properties of the jump key in the game (checked under SpecJump).        *)
(***************************************************************************)
\* C34: a tick that finds the body Airborne and the jump edge set calls no
\* onJump and leaves the body as a tick without the edge would; every tick
\* ends with the edge cleared; and onJump is called only in a tick that
\* found the body Grounded and the edge set -- so a press made in the air
\* is gone when the body lands.
C34_NoBufferedJump ==
    [][JumpFrame =>
          /\ (run'.airborne /\ run'.edge) =>
                /\ Emitted(game'.player, "onJump") = 0
                /\ game'.player = Player_update(game.player,
                                                [input EXCEPT !.justPressed = {}],
                                                collision, Ms(run'.dt))
          /\ ~isJumpPressed(input')
          /\ Emitted(game'.player, "onJump") = 1 => (run'.edge /\ ~run'.airborne)]_vars

\* The tick that landed the body found the jump edge set: the body is on
\* the ground, at rest, and the edge is cleared.
C34_Witness ==
    /\ run.kind = "tick"
    /\ run.airborne /\ run.edge
    /\ game.player.isGrounded
    /\ Emitted(game.player, "onLand") = 1
    /\ input.justPressed = {}

Kinematic(P) == <<P.x, P.y, P.velocityX, P.velocityY, P.isGrounded, P.stepTimer>>

\* C40: the modal and the dialogue are never both open; the dialogue is
\* opened only by a tick that starts with neither overlay open, and the
\* modal is opened only by the dialogue's action button, in a step that
\* closes the dialogue (checked under SpecGame).
C40_OneOverlay ==
    /\ ~(game.modal.isOpen /\ game.dialogue.isOpen)
    /\ [][ /\ (~game.dialogue.isOpen /\ game'.dialogue.isOpen)
                 => (~game.modal.isOpen /\ GameUpdate)
           /\ (~game.modal.isOpen /\ game'.modal.isOpen)
                 => (ClickEnterProject /\ ~game'.dialogue.isOpen) ]_vars

\* The action button of the dialogue has opened the modal and closed the
\* dialogue.
C40_Witness ==
    /\ game.modal.isOpen
    /\ ~game.dialogue.isOpen
    /\ game.dialogue.button
    /\ camera.shakeTimer > 0

\* The edge flags of the InputManager.
EdgeFlags(I) == <<I.justPressed, I.mobileInteract, I.mobileJump>>

\* The state of the camera.
CameraState(Cam) == <<Cam.x, Cam.shakeTimer, Cam.shakeOffsetX, Cam.shakeOffsetY>>

\* A tick that starts with the modal or the dialogue open leaves the
\* player's kinematic state and the camera state unchanged and clears all
\* edge flags.
OverlayTickInert ==
    [][(OverlayFrame /\ Overlay) =>
          /\ Kinematic(game'.player) = Kinematic(game.player)
          /\ CameraState(camera') = CameraState(camera)
          /\ EdgeFlags(input') = <<{}, FALSE, FALSE>>]_vars

\* C37: a tick that starts with the modal or the dialogue open leaves the
\* player's kinematic state and the camera state unchanged and clears all
\* edge flags, and a jump press made while an overlay was open never makes
\* the body jump in a tick after the overlay has closed.
C37_OverlaySwallowsPresses ==
    [][OverlayFrame =>
          /\ Overlay => /\ Kinematic(game'.player) = Kinematic(game.player)
                        /\ CameraState(camera') = CameraState(camera)
                        /\ EdgeFlags(input') = <<{}, FALSE, FALSE>>
          /\ (~Overlay /\ " " \in run.masked) => Emitted(game'.player, "onJump") = 0]_vars

\* C35: a body that is Airborne becomes Grounded again, unless from some
\* time on an overlay is always open (SpecFallFair: whenever no overlay is
\* open again and again, ticks with dt > 0 run again and again).
C35_EventuallyGrounded ==
    ([]<>~Overlay) => (~game.player.isGrounded ~> game.player.isGrounded)

\* The body is in the air and falling, with the dialogue open over it.
C35_Witness ==
    /\ ~game.player.isGrounded
    /\ game.player.velocityY > 0
    /\ game.dialogue.isOpen
    /\ calls.path = "dialogue"

\* C25: a body whose onJump, onLand and onStep are null goes through every
\* update without calling anything, and its x, y, velocities, grounded
\* flag and step timer are those of the body with callbacks registered
\* after the same updates.
C25_NullCallbacks ==
    /\ run.mute.emitted = <<>>
    /\ Kinematic(run.mute) = Kinematic(game.player)

\* The update in which the body with callbacks called onJump.
C25_Witness ==
    /\ Emitted(game.player, "onJump") = 1
    /\ run.mute.onJump = "null"
    /\ ~run.mute.isGrounded

\* The update in which it called onLand.
C25_WitnessLand ==
    /\ Emitted(game.player, "onLand") = 1
    /\ run.mute.onLand = "null"
    /\ run.mute.isGrounded

\* The update in which it called onStep.
C25_WitnessStep ==
    /\ Emitted(game.player, "onStep") = 1
    /\ run.mute.onStep = "null"
    /\ run.mute.stepTimer = 0

\* The interactive zones of the world's entities at a ground level, in the
\* order buildings, characters, skills.
WorldZones(groundY) ==
    [i \in 1..Len(Buildings) |->
        [x |-> Buildings[i].x - Px(30), y |-> groundY - Buildings[i].height,
         width |-> Buildings[i].width + Px(60), height |-> Buildings[i].height,
         data |-> "building"]]
    \o [i \in 1..Len(Npcs) |->
        [x |-> Npcs[i].x - Px(50), y |-> groundY - Px(60),
         width |-> Px(100), height |-> Px(60), data |-> "npc"]]
    \o [i \in 1..Len(Skills) |->
        [x |-> Skills[i].x - Px(40), y |-> groundY - Px(100),
         width |-> Px(80), height |-> Px(100), data |-> "skill"]]

\* C23: after initialisation and any number of resizes the interactive
\* zones are exactly the zones of the world's entities at the current
\* ground level, each once, and a resize leaves no solid zone behind.
C23_WholesaleRebuild ==
    /\ collision.interactiveZones = WorldZones(collision.groundY)
    /\ run.kind = "resize" => collision.solidZones = <<>>

\* The game has run, and the window has been resized to another height.
C23_Witness ==
    /\ run.kind = "resize"
    /\ collision.groundY = GroundLevel(ResizedHeight)
    /\ Len(collision.interactiveZones) = Len(Buildings) + Len(Npcs) + Len(Skills)
    /\ game.player.x # Px(PlayStart)

(***************************************************************************)
(* Properties of the Camera (checked under SpecCamera).                    *)
(***************************************************************************)
\* The width and the height of what the rectangle of the latest isVisible
\* call and the viewport have in common (negative when they are apart).
OverlapWidth ==
    FracAdd(FracMin(Whole(probe.rect.x + probe.rect.width),
                    FracAdd(camera.x, Whole(camera.width))),
            FracNeg(FracMax(Whole(probe.rect.x), camera.x)))

OverlapHeight ==
    Min(probe.rect.y + probe.rect.height, camera.y + camera.height)
        - Max(probe.rect.y, camera.y)

PositiveOverlap == FracLess(Whole(0), OverlapWidth) /\ OverlapHeight > 0

\* Every step that leaves run.kind = "isVisible" is a call of isVisible.
\* C27: isVisible changes no field of the camera and returns true exactly
\* when the rectangle and the viewport overlap with positive area.
C27_VisibleIffOverlap ==
    [][run'.kind = "isVisible" =>
          /\ camera' = camera
          /\ probe'.out <=> PositiveOverlap']_vars

Proper(rect) == rect.width > 0 /\ rect.height > 0

\* C27 (amended): isVisible changes no field of the camera, and for a
\* rectangle and a viewport of positive width and height it returns true
\* exactly when they overlap with positive area.
C27_VisibleIffOverlapProper ==
    [][run'.kind = "isVisible" =>
          /\ camera' = camera
          /\ (Proper(probe'.rect) /\ Proper(camera)) => (probe'.out <=> PositiveOverlap')]_vars

\* The camera has moved, and a rectangle across the left edge of the
\* viewport is visible.
C27_Witness ==
    /\ run.kind = "isVisible"
    /\ Proper(probe.rect) /\ Proper(camera)
    /\ FracLess(Whole(probe.rect.x), camera.x)
    /\ probe.out

\* A rectangle that ends where the viewport starts is not visible.
C27_WitnessTouching ==
    /\ run.kind = "isVisible"
    /\ Proper(probe.rect) /\ Proper(camera)
    /\ Whole(probe.rect.x + probe.rect.width) = camera.x
    /\ probe.rect.y = 0
    /\ ~probe.out

\* target.x - width / 2 clamped as update() clamps: not above
\* worldWidth - width, then not below 0.
ClampedDesired(Cam, targetX) ==
    LET desiredX == Frac(2 * targetX - Cam.width, 2)
        right    == Whole(Cam.worldWidth - Cam.width)
        capped   == IF FracLess(right, desiredX) THEN right ELSE desiredX
    IN  IF FracLess(capped, Whole(0)) THEN Whole(0) ELSE capped

Between(a, v, b) ==
    \/ FracLeq(a, v) /\ FracLeq(v, b)
    \/ FracLeq(b, v) /\ FracLeq(v, a)

Distance(a, b) == FracAbs(FracAdd(a, FracNeg(b)))

\* C26: after update() the new camera.x lies between the previous camera.x
\* and the clamped desired position, and is no farther from the clamped
\* desired position than the previous camera.x was.
C26_NoOvershoot ==
    [][run'.kind = "update" =>
          LET desired == ClampedDesired(camera, run'.targetX)
          IN  /\ Between(camera.x, camera'.x, desired)
              /\ FracLeq(Distance(camera'.x, desired), Distance(camera.x, desired))]_vars

\* The camera has moved from the left end and is still short of the
\* clamped desired position.
C26_Witness ==
    /\ run.kind = "update"
    /\ FracLess(Whole(0), camera.x)
    /\ FracLess(camera.x, ClampedDesired(camera, run.targetX))

\* The camera was right of a range that a resize made narrower: the update
\* has brought it to the right end of the range, the clamped desired
\* position being farther left.
C26_WitnessFromOutside ==
    /\ run.kind = "update"
    /\ camera.width < camera.worldWidth
    /\ camera.x = Whole(camera.worldWidth - camera.width)
    /\ FracLess(ClampedDesired(camera, run.targetX), camera.x)
\* C38: when gameRender has run, camera.x lies in
\* [0, worldWidth - viewportWidth] for the viewport width of that render
\* (checked under SpecResize).
C38_RenderedInWorld ==
    run.kind = "frame" =>
        /\ FracLeq(Whole(0), camera.x)
        /\ FracLeq(camera.x, Whole(camera.worldWidth - camera.width))

\* C39: after an update that follows shake(intensity, duration), neither
\* shake offset exceeds intensity in magnitude (checked under SpecShake).
C39_ShakeWithinIntensity ==
    run.kind = "update" =>
        /\ FracLeq(FracAbs(camera.shakeOffsetX), Whole(camera.shakeIntensity))
        /\ FracLeq(FracAbs(camera.shakeOffsetY), Whole(camera.shakeIntensity))

\* C19 as claimed: after every update camera.x lies in
\* [0, worldWidth - viewportWidth], whatever the target and the viewport
\* width.
C19_CameraInWorld ==
    run.kind = "update" =>
        /\ FracLeq(Whole(0), camera.x)
        /\ FracLeq(camera.x, Whole(camera.worldWidth - camera.width))

\* C19 as amended: after every update camera.x lies in
\* [0, worldWidth - viewportWidth] when the viewport is no wider than the
\* world, and is 0 when it is wider.
C19_CameraInWorldOrAtZero ==
    run.kind = "update" =>
        IF camera.width <= camera.worldWidth
        THEN /\ FracLeq(Whole(0), camera.x)
             /\ FracLeq(camera.x, Whole(camera.worldWidth - camera.width))
        ELSE camera.x = Whole(0)

\* An update towards a target right of the world has left the camera at the
\* right end of the world.
C19_Witness ==
    /\ run.kind = "update"
    /\ camera.width < camera.worldWidth
    /\ camera.x = Whole(camera.worldWidth - camera.width)

\* C20: after an update that leaves the shake countdown at zero or below
\* both shake offsets are zero, and while the countdown is positive each
\* offset is at most intensity * (remaining / duration) in magnitude.
C20_ShakeEnvelope ==
    run.kind = "update" =>
        IF camera.shakeTimer <= 0
        THEN camera.shakeOffsetX = Whole(0) /\ camera.shakeOffsetY = Whole(0)
        ELSE LET envelope == Frac(camera.shakeIntensity * camera.shakeTimer,
                                  camera.shakeDuration)
             IN  /\ FracLeq(FracAbs(camera.shakeOffsetX), envelope)
                 /\ FracLeq(FracAbs(camera.shakeOffsetY), envelope)

====
